---- MODULE Spec2Model ----
(***************************************************************************)
(* Multisig coordination engine of localsafe.eth: the pending transaction  *)
(* store (SafeTxProvider), the pending message store (SafeMessageProvider),*)
(* the signature aggregation done on the transaction and message pages,    *)
(* and the nonce arbitration of the token transfer dialog.                 *)
(*                                                                         *)
(* Optional values (null | T) are sequences of length at most one.         *)
(* A JS Map with insertion order is a sequence of its values.              *)
(***************************************************************************)
EXTENDS Integers, Sequences, FiniteSets, TLC

---------------------------------------------------------------------------
(* Bounds of the model *)

\* nonces range over 0..MaxNonce
MaxNonce == 1
\* a key's queue holds at most MaxQueue transactions
MaxQueue == 2

---------------------------------------------------------------------------
(* Values *)

SafeAddress == "0xSafe"
Safes == {SafeAddress}

\* chain ids as the strings String(chain.id); NoChain is chainId === undefined
ChainIds == {"1", "10"}
NoChain == "undefined"
ChainArgs == ChainIds \cup {NoChain}
\* the chain arguments the store operations are exercised with directly
StoreChainArgs == {"1", NoChain}

\* const key = chainId ? `${safeAddress}-${chainId}` : safeAddress
Key(safeAddress, chainId) ==
  IF chainId = NoChain THEN <<safeAddress>> ELSE <<safeAddress, chainId>>

Keys == {Key(a, c) : a \in Safes, c \in ChainArgs}

\* A nonce is a JS number or a decimal string (JSON keeps what the file holds).
NumNonce(n) == [rep |-> "number", val |-> n]
StrNonce(n) == [rep |-> "string", val |-> n]
NonceVals == {NumNonce(n) : n \in 0..MaxNonce} \cup {StrNonce(n) : n \in 0..MaxNonce}

\* Number(tx.data.nonce)
Number(nonce) == nonce.val

\* a === b on nonces: no coercion, a number never equals a string
StrictEq(a, b) == a = b

\* signer strings: two spellings of owner A, two of owner B
Signers == {"0xA", "0xa", "0xB", "0xb"}
toLowerCase(s) ==
  CASE s = "0xA" -> "0xa"
    [] s = "0xB" -> "0xb"
    [] s = "0xC" -> "0xc"
    [] s = "0xD" -> "0xd"
    [] s = "0xE" -> "0xe"
    [] OTHER -> s

\* the signer address read as an unsigned integer
AddrNum(s) == IF toLowerCase(s) = "0xa" THEN 10 ELSE 11

\* new EthSafeSignature(signer, data, isContractSignature)
EthSafeSignature(signer, data, isContractSignature) ==
  [signer |-> signer, data |-> data, isContractSignature |-> isContractSignature]

---------------------------------------------------------------------------
(* Signature map of an entity (EthSafeTransaction / EthSafeMessage) *)

\* index of the first element of sigs stored under key lower, 0 if none
SigIndex(sigs, lower) ==
  IF \E i \in 1..Len(sigs) : toLowerCase(sigs[i].signer) = lower
  THEN CHOOSE i \in 1..Len(sigs) :
         /\ toLowerCase(sigs[i].signer) = lower
         /\ \A j \in 1..(i - 1) : toLowerCase(sigs[j].signer) # lower
  ELSE 0

\* signatures.has(address.toLowerCase())
HasSignature(sigs, lower) == SigIndex(sigs, lower) # 0

\* entity.addSignature(sig): signatures.set(sig.signer.toLowerCase(), sig);
\* a Map keeps the position of a key that is set again
addSignature(sigs, sig) ==
  LET i == SigIndex(sigs, toLowerCase(sig.signer))
  IN IF i = 0 THEN Append(sigs, sig) ELSE [sigs EXCEPT ![i] = sig]

\* txObj.addSignature for each element of a stored signature array, in order
RECURSIVE addSignatures(_, _)
addSignatures(sigs, list) ==
  IF list = <<>> THEN sigs
  ELSE addSignatures(addSignature(sigs, Head(list)), Tail(list))

\* signatures sorted by signer address, ascending (stable insertion)
RECURSIVE SortBySigner(_)
InsertBySigner(sorted, sig) ==
  LET before == SelectSeq(sorted, LAMBDA x : AddrNum(x.signer) <= AddrNum(sig.signer))
      after == SelectSeq(sorted, LAMBDA x : AddrNum(x.signer) > AddrNum(sig.signer))
  IN before \o <<sig>> \o after
SortBySigner(sigs) ==
  IF sigs = <<>> THEN <<>>
  ELSE InsertBySigner(SortBySigner(SubSeq(sigs, 1, Len(sigs) - 1)), sigs[Len(sigs)])

\* encodedSignatures in the order in which the signatures were added
encodedSignatures_Unsorted(sigs) == [i \in 1..Len(sigs) |-> sigs[i].data]

\* entity.encodedSignatures(): the signature data in signer order
encodedSignatures(sigs) ==
  LET sorted == SortBySigner(sigs)
  IN [i \in 1..Len(sorted) |-> sorted[i].data]

\* the set of signatures held, whatever the insertion order
SigSet(sigs) == {sigs[i] : i \in 1..Len(sigs)}
SignerSet(sigs) == {toLowerCase(sigs[i].signer) : i \in 1..Len(sigs)}

---------------------------------------------------------------------------
(* Transactions *)

\* new EthSafeTransaction(data), no signatures yet
EthSafeTransaction(data) == [data |-> data, signatures |-> <<>>]

TxData(value, data, nonce) == [value |-> value, data |-> data, nonce |-> nonce]

\* kit.getTransactionHash(tx): the EIP-712 digest depends on the fields and
\* on the numeric value of the nonce, not on its representation
getTransactionHash(tx) == <<tx.data.value, tx.data.data, Number(tx.data.nonce)>>

\* index of the first transaction with tx.data.nonce === nonce, 0 if none
FindIndexStrict(txs, nonce) ==
  IF \E i \in 1..Len(txs) : StrictEq(txs[i].data.nonce, nonce)
  THEN CHOOSE i \in 1..Len(txs) :
         /\ StrictEq(txs[i].data.nonce, nonce)
         /\ \A j \in 1..(i - 1) : ~StrictEq(txs[j].data.nonce, nonce)
  ELSE 0

\* index of the first transaction with Number(tx.data.nonce) === Number(nonce)
FindIndexNumber(txs, nonce) ==
  IF \E i \in 1..Len(txs) : Number(txs[i].data.nonce) = Number(nonce)
  THEN CHOOSE i \in 1..Len(txs) :
         /\ Number(txs[i].data.nonce) = Number(nonce)
         /\ \A j \in 1..(i - 1) : Number(txs[j].data.nonce) # Number(nonce)
  ELSE 0

\* txs.sort((a, b) => Number(a.data.nonce) - Number(b.data.nonce)), stable
RECURSIVE SortByNonce(_)
InsertByNonce(sorted, tx) ==
  LET before == SelectSeq(sorted, LAMBDA x : Number(x.data.nonce) <= Number(tx.data.nonce))
      after == SelectSeq(sorted, LAMBDA x : Number(x.data.nonce) > Number(tx.data.nonce))
  IN before \o <<tx>> \o after
SortByNonce(txs) ==
  IF txs = <<>> THEN <<>>
  ELSE InsertByNonce(SortByNonce(SubSeq(txs, 1, Len(txs) - 1)), txs[Len(txs)])

\* { data: tx.data, signatures: Array.from(tx.signatures.values()) }
StoredTx(tx) == [data |-> tx.data, signatures |-> tx.signatures]
StoredTxs(txs) == [i \in 1..Len(txs) |-> StoredTx(txs[i])]

\* new EthSafeTransaction(parsed.data) followed by addSignature per stored signature
ParseStoredTx(stored) ==
  [data |-> stored.data, signatures |-> addSignatures(<<>>, stored.signatures)]

---------------------------------------------------------------------------
(* State *)

\* a version string as its characters; "1.4.1", the version assumed when
\* safeInfo.version is empty
DefaultVersion == <<"1", ".", "4", ".", "1">>

VARIABLES
  currentTxMap,    \* currentTxMapRef.current: key -> EthSafeTransaction[]
  localStorageTx,  \* localStorage[SAFE_TX_STORAGE_KEY]: key -> StoredTx[] (<<>> = no entry)
  kit,             \* useSafe: kitRef.current !== null
  safeInfo,        \* useSafe: safeInfo state, null or {threshold, nonce, ...}
  isOwner,         \* useSafe: isOwner state
  safeTx,          \* TxDetailsClient: safeTx state, null or the transaction shown
  showModal,       \* TxDetailsClient: the broadcast modal is open
  broadcastError,  \* TxDetailsClient: broadcastError !== null
  searchParams,    \* SafeDashboardClient: share link in the URL, null or the link
  executed,        \* the chain: last transaction sent by kit.executeTransaction
  chainNonce,      \* the chain: the nonce the Safe contract holds
  currentMsgMap,   \* currentMsgMapRef.current: key -> {message, hash}[]
  localStorageMsg, \* localStorage[SAFE_MESSAGE_STORAGE_KEY]: key -> StoredMsg[]
  pendingRequest,  \* WalletConnect: pending session request, null or the request
  signedMessage,   \* WalletConnectSignClient: signedMessage state
  messageHash,     \* WalletConnectSignClient: messageHash state ("" at mount)
  approved         \* the dApp: last response sent by approveRequest

txStoreVars == <<currentTxMap, localStorageTx>>
safeVars == <<kit, safeInfo, isOwner>>
txPageVars == <<safeTx, showModal, broadcastError, searchParams>>
chainVars == <<executed, chainNonce>>
msgStoreVars == <<currentMsgMap, localStorageMsg>>
wcVars == <<pendingRequest, signedMessage, messageHash, approved>>

VARIABLES
  manageOwnersModalOpen, \* SafeDashboardClient: the owner dialog is open
  ownersToRemove,  \* ManageOwnersModal: Set of lower-cased owners, in insertion order
  ownersToAdd,     \* ManageOwnersModal: addresses queued to be added
  newThreshold,    \* ManageOwnersModal: the threshold field
  ownerTxResult,   \* the last call of an owner-management builder: arguments and outcome
  undeployedSafe,  \* SafeWalletData: the undeployed record of the account, null or its config
  deployedSafes,   \* SafeWalletData: addresses recorded as deployed
  deploySteps,     \* SafeDashboardClient: deploySteps state
  deployTxHash,    \* SafeDashboardClient: deployTxHash state
  deployError,     \* SafeDashboardClient: deployError state
  steps,           \* deployUndeployedSafe: the steps array of the attempt
  sentTxHash,      \* deployUndeployedSafe: the local txHash
  deployPc,        \* deployUndeployedSafe: the await the attempt stands at
  deployTemplate,  \* utils/constants: the DEFAULT_DEPLOY_STEPS array object
  predicted,       \* the addresses Safe.init predicted, one per attempt
  callbacks        \* the SafeWalletData callbacks invoked by the attempt

ownerVars == <<manageOwnersModalOpen, ownersToRemove, ownersToAdd, newThreshold, ownerTxResult>>
deployVars == <<undeployedSafe, deployedSafes, deploySteps, deployTxHash, deployError,
                steps, sentTxHash, deployPc, deployTemplate, predicted, callbacks>>
dashboardVars == <<ownerVars, deployVars>>

VARIABLES
  pathname,              \* the router: location.pathname
  processedRequestIds,   \* WalletConnectRequestHandler: processedRequestIds.current
  isNavigatingToWcPage,  \* WalletConnectRequestHandler: isNavigatingToWcPage.current
  sessionStorageRequest, \* sessionStorage["wc-pending-request"], null or the request
  requestFromStorage,    \* wc-tx / wc-sign page: requestFromStorage state
  pageParams,            \* wc-tx / wc-sign page: txParams / signParams, null or the request they are of
  isProcessing,          \* wc-tx / wc-sign page: isProcessing state
  inFlight,              \* calls of respondSessionRequest that have not settled
  responses,             \* the dApp: the terminal responses received, in order
  delivered              \* the requests the request source delivered, in order

requestVars == <<pathname, processedRequestIds, isNavigatingToWcPage, sessionStorageRequest,
                 requestFromStorage, pageParams, isProcessing, inFlight, responses, delivered>>

VARIABLES
  rawTxRecord,     \* localStorage[SAFE_TX_STORAGE_KEY] as a string: the JSON of the map or not
  rawMsgRecord,    \* localStorage[SAFE_MESSAGE_STORAGE_KEY] as a string, likewise
  storeThrew       \* the last store operation threw

recordVars == <<rawTxRecord, rawMsgRecord, storeThrew>>

VARIABLES
  safeVersion,     \* safeInfo.version of the account whose messages are hashed
  hashChainId,     \* the chain id the pages hash for
  typedData,       \* the EIP-712 object entered or requested: its fields
  rawHashes,       \* SignMessageClient: rawHashes state, null or the hashes
  safeHashes,      \* SignMessageClient: safeHashes state, null or the hashes
  hashError,       \* SignMessageClient: error state, null or the message
  pageEip712Data,  \* message details page: eip712Data state
  wcEip712Data     \* WalletConnectSignClient: eip712Data state

hashVars == <<safeVersion, hashChainId, typedData, rawHashes, safeHashes, hashError,
              pageEip712Data, wcEip712Data>>

VARIABLES
  safeMessage,     \* MessageDetailsClient: safeMessage state, null or the message shown
  wcMessageRef,    \* sessionStorage["wc-message-" + messageHash], null or {topic, id}
  respondCalls     \* the calls of approveRequest made by the message details page

detailVars == <<safeMessage, wcMessageRef, respondCalls>>

VARIABLES
  lastBuild        \* the last call of buildSafeTransaction: who built, with which nonce,
                   \* over which queue, and the nonce warning on screen at that moment

buildVars == <<lastBuild>>

VARIABLES
  otherTxMap,      \* currentTxMapRef.current of a second tab of the same browser
  otherMsgMap,     \* currentMsgMapRef.current of the second tab
  tabOps           \* the number of store operations the two tabs have made

tabVars == <<otherTxMap, otherMsgMap, tabOps>>

VARIABLES
  fetchRuns,       \* useSafe: the runs of the fetchSafeInfo effect, each with the chain it
                   \* was started for, its cancelled flag and the await it stands at
  accountState     \* useSafe: safeInfo, isOwner, unavailable, error and kitRef.current

fetchVars == <<fetchRuns, accountState>>
lateVars == <<detailVars, buildVars, tabVars, fetchVars>>
appVars == <<dashboardVars, requestVars, recordVars, hashVars, lateVars>>

vars == <<currentTxMap, localStorageTx, kit, safeInfo, isOwner, safeTx, showModal,
          broadcastError, searchParams, executed, chainNonce, currentMsgMap, localStorageMsg,
          pendingRequest, signedMessage, messageHash, approved, ownerVars, deployVars,
          requestVars, recordVars, hashVars, lateVars>>

\* the in-memory map and the persisted map as one value
TxStore == [mem |-> currentTxMap, ls |-> localStorageTx]

NoTxHash == <<>>
NoNonce == <<>>

---------------------------------------------------------------------------
(* SafeTxProvider *)

\* saveTransaction without the sort after the upsert
saveTransaction_NoSort(st, safeAddress, txObj, chainId) ==
  LET key == Key(safeAddress, chainId)
      existingTxs == st.mem[key]
      existingIndex == FindIndexStrict(existingTxs, txObj.data.nonce)
      updated == IF existingIndex > 0
                 THEN [existingTxs EXCEPT ![existingIndex] = txObj]
                 ELSE Append(existingTxs, txObj)
  IN [mem |-> [st.mem EXCEPT ![key] = updated],
      ls |-> [st.ls EXCEPT ![key] = StoredTxs(updated)]]

\* saveTransaction(safeAddress, txObj, chainId)
saveTransaction(st, safeAddress, txObj, chainId) ==
  LET key == Key(safeAddress, chainId)
      existingTxs == st.mem[key]
      existingIndex == FindIndexStrict(existingTxs, txObj.data.nonce)
      updated == IF existingIndex > 0
                 THEN [existingTxs EXCEPT ![existingIndex] = txObj]
                 ELSE Append(existingTxs, txObj)
      sorted == SortByNonce(updated)
  IN [mem |-> [st.mem EXCEPT ![key] = sorted],
      ls |-> [st.ls EXCEPT ![key] = StoredTxs(sorted)]]

\* getAllTransactions(safeAddress, chainId)
getAllTransactions(mem, safeAddress, chainId) == mem[Key(safeAddress, chainId)]

\* getTransaction(safeAddress, chainId): txs[0] or null
getTransaction(mem, safeAddress, chainId) ==
  LET txs == mem[Key(safeAddress, chainId)]
  IN IF Len(txs) > 0 THEN <<txs[1]>> ELSE <<>>

\* removeTransaction filtering with tx.data.nonce !== nonce, without Number()
removeTransaction_StrictNonce(st, safeAddress, txHash, nonce, chainId) ==
  LET key == Key(safeAddress, chainId)
      existingTxs == st.mem[key]
      filtered == IF nonce # NoNonce
                  THEN SelectSeq(existingTxs,
                                 LAMBDA tx : ~StrictEq(tx.data.nonce, NumNonce(nonce[1])))
                  ELSE existingTxs
  IN IF txHash = NoTxHash /\ nonce = NoNonce
     THEN [mem |-> [st.mem EXCEPT ![key] = <<>>],
           ls |-> [st.ls EXCEPT ![key] = <<>>]]
     ELSE [mem |-> [st.mem EXCEPT ![key] = filtered],
           ls |-> [st.ls EXCEPT ![key] = StoredTxs(filtered)]]

\* removeTransaction(safeAddress, txHash?, nonce?, chainId)
removeTransaction(st, safeAddress, txHash, nonce, chainId) ==
  LET key == Key(safeAddress, chainId)
      existingTxs == st.mem[key]
      filtered == IF nonce # NoNonce
                  THEN SelectSeq(existingTxs, LAMBDA tx : Number(tx.data.nonce) # nonce[1])
                  ELSE existingTxs
  IN IF txHash = NoTxHash /\ nonce = NoNonce
     THEN [mem |-> [st.mem EXCEPT ![key] = <<>>],
           ls |-> [st.ls EXCEPT ![key] = <<>>]]
     ELSE [mem |-> [st.mem EXCEPT ![key] = filtered],
           ls |-> [st.ls EXCEPT ![key] = StoredTxs(filtered)]]

\* exportTx(safeAddress, chainId): "" or JSON.stringify({ transactions })
exportTx(mem, safeAddress, chainId) ==
  LET txs == mem[Key(safeAddress, chainId)]
  IN IF Len(txs) = 0
     THEN [kind |-> "empty", txs |-> <<>>]
     ELSE [kind |-> "transactions",
           txs |-> [i \in 1..Len(txs) |->
                      [hasData |-> TRUE, data |-> txs[i].data,
                       signatures |-> txs[i].signatures]]]

\* the transactions importTx builds from the parsed JSON
ImportedTxs(json) ==
  IF json.kind \in {"transactions", "tx"}
  THEN LET withData == SelectSeq(json.txs, LAMBDA e : e.hasData)
       IN [i \in 1..Len(withData) |-> ParseStoredTx(withData[i])]
  ELSE <<>>

\* transactions.forEach: add or replace by Number(nonce)
RECURSIVE MergeImported(_, _)
MergeImported(mergedTxs, transactions) ==
  IF transactions = <<>> THEN mergedTxs
  ELSE LET importedTx == Head(transactions)
           existingIndex == FindIndexNumber(mergedTxs, importedTx.data.nonce)
       IN MergeImported(
            IF existingIndex > 0
            THEN [mergedTxs EXCEPT ![existingIndex] = importedTx]
            ELSE Append(mergedTxs, importedTx),
            Tail(transactions))

\* importTx(safeAddress, json, chainId)
importTx(st, safeAddress, json, chainId) ==
  LET key == Key(safeAddress, chainId)
      transactions == ImportedTxs(json)
      mergedTxs == SortByNonce(MergeImported(st.mem[key], transactions))
  IN IF Len(transactions) > 0
     THEN [mem |-> [st.mem EXCEPT ![key] = mergedTxs],
           ls |-> [st.ls EXCEPT ![key] = StoredTxs(mergedTxs)]]
     ELSE st

\* hydration on mount: every persisted key is parsed into the in-memory map
HydratedTxMap(ls) ==
  [k \in Keys |-> [i \in 1..Len(ls[k]) |-> ParseStoredTx(ls[k][i])]]

---------------------------------------------------------------------------
(* Inputs of the store operations *)

\* signatures as wallets produce them and as they are pasted or imported
SigA == EthSafeSignature("0xA", "sigA", FALSE)
SigB == EthSafeSignature("0xB", "sigB", FALSE)

\* partially signed copies handed to the store: one payload; every nonce as
\* a number, signed by A or by B, and the highest nonce also as a decimal
\* string, signed by B
TxOf(nonce, signatures) == [data |-> TxData("0", "0xd1", nonce), signatures |-> signatures]
TxPoolA == {TxOf(NumNonce(n), <<SigA>>) : n \in 0..MaxNonce}
TxPoolB == {TxOf(NumNonce(n), <<SigB>>) : n \in 0..MaxNonce}
TxPoolStr == {TxOf(StrNonce(MaxNonce), <<SigB>>)}
TxPool == TxPoolA \cup TxPoolB \cup TxPoolStr

\* one entry of an import file
FileEntry(tx) == [hasData |-> TRUE, data |-> tx.data, signatures |-> tx.signatures]
NoDataEntry == [hasData |-> FALSE, data |-> TxData("0", "0x", NumNonce(0)), signatures |-> <<>>]

\* import files: not JSON, the empty string, JSON without transactions, the
\* old single-transaction format, and bundles of one or two transactions
ImportFiles ==
  {[kind |-> "invalid", txs |-> <<>>],
   [kind |-> "empty", txs |-> <<>>],
   [kind |-> "other", txs |-> <<>>],
   [kind |-> "transactions", txs |-> <<>>],
   [kind |-> "transactions", txs |-> <<NoDataEntry>>]}
  \cup {[kind |-> "tx", txs |-> <<FileEntry(t)>>] : t \in TxPool}
  \cup {[kind |-> "transactions", txs |-> <<FileEntry(t), FileEntry(u)>>] :
          t \in TxPoolA, u \in TxPoolB \cup TxPoolStr}

---------------------------------------------------------------------------
(* The store operations as steps *)

\* a step of the deployment list: {step, status, error?, txHash?}; an absent
\* error or txHash is ""
DeployStep(step, status) == [step |-> step, status |-> status, error |-> "", txHash |-> ""]

\* DEFAULT_DEPLOY_STEPS of utils/constants: the four steps, all pending
DEFAULT_DEPLOY_STEPS ==
  <<DeployStep("txCreated", "pending"), DeployStep("txSent", "pending"),
    DeployStep("confirmed", "pending"), DeployStep("deployed", "pending")>>

\* SafeDashboardClient and ManageOwnersModal at mount, no attempt started
DashboardMounted ==
  /\ manageOwnersModalOpen = FALSE
  /\ ownersToRemove = <<>>
  /\ ownersToAdd = <<>>
  /\ ownerTxResult = <<>>
  /\ deployedSafes = {}
  /\ deploySteps = DEFAULT_DEPLOY_STEPS
  /\ deployTxHash = ""
  /\ deployError = <<>>
  /\ steps = <<>>
  /\ sentTxHash = ""
  /\ deployPc = "idle"
  /\ deployTemplate = DEFAULT_DEPLOY_STEPS
  /\ predicted = <<>>
  /\ callbacks = <<>>

\* the layout is mounted on the dashboard of the account: no request yet
HandlerMounted ==
  /\ pathname = "/safe"
  /\ processedRequestIds = {}
  /\ isNavigatingToWcPage = FALSE
  /\ sessionStorageRequest = <<>>
  /\ requestFromStorage = <<>>
  /\ pageParams = <<>>
  /\ isProcessing = FALSE
  /\ inFlight = <<>>
  /\ responses = <<>>
  /\ delivered = <<>>

\* the message details page is not open and has made no call
DetailUnset ==
  /\ safeMessage = <<>>
  /\ wcMessageRef = <<>>
  /\ respondCalls = <<>>

\* no transaction has been built yet
BuildUnset == lastBuild = <<>>

\* a second tab, if there is one, has hydrated from the same records
TabUnset ==
  /\ otherTxMap = [k \in Keys |-> <<>>]
  /\ otherMsgMap = [k \in Keys |-> <<>>]
  /\ tabOps = 0

\* useState(null), useState(false), useState(null), useRef(null)
NoAccountState ==
  [safeInfo |-> <<>>, isOwner |-> FALSE, unavailable |-> FALSE, error |-> "", kitRef |-> <<>>]

\* the wallet is not connected: the effect has not started a fetch
FetchUnset ==
  /\ fetchRuns = <<>>
  /\ accountState = NoAccountState

LateUnset == DetailUnset /\ BuildUnset /\ TabUnset /\ FetchUnset

\* the hashing pages are not open: version and chain of the usual account
HashesUnset ==
  /\ safeVersion = DefaultVersion
  /\ hashChainId = 1
  /\ typedData = {}
  /\ rawHashes = <<>>
  /\ safeHashes = <<>>
  /\ hashError = <<>>
  /\ pageEip712Data = <<>>
  /\ wcEip712Data = <<>>

\* both persisted records are the JSON of their maps
RecordsIntact ==
  /\ rawTxRecord = "map"
  /\ rawMsgRecord = "map"
  /\ storeThrew = FALSE

Init ==
  /\ DashboardMounted
  /\ HandlerMounted
  /\ RecordsIntact
  /\ HashesUnset
  /\ LateUnset
  /\ newThreshold = 0
  /\ undeployedSafe = <<>>
  /\ currentTxMap = [k \in Keys |-> <<>>]
  /\ localStorageTx = [k \in Keys |-> <<>>]
  /\ kit = FALSE
  /\ safeInfo = <<>>
  /\ isOwner = FALSE
  /\ safeTx = <<>>
  /\ showModal = FALSE
  /\ broadcastError = FALSE
  /\ searchParams = <<>>
  /\ executed = <<>>
  /\ chainNonce = 0
  /\ currentMsgMap = [k \in Keys |-> <<>>]
  /\ localStorageMsg = [k \in Keys |-> <<>>]
  /\ pendingRequest = <<>>
  /\ signedMessage = <<>>
  /\ messageHash = ""
  /\ approved = <<>>

WithinQueueBound(st) == \A k \in Keys : Len(st.mem[k]) <= MaxQueue

SetTxStore(st) ==
  /\ WithinQueueBound(st)
  /\ currentTxMap' = st.mem
  /\ localStorageTx' = st.ls

SaveTransactionOf(txObj, chainId) ==
  SetTxStore(saveTransaction(TxStore, SafeAddress, txObj, chainId))

ImportTxOf(json, chainId) ==
  SetTxStore(importTx(TxStore, SafeAddress, json, chainId))

RemoveTransactionOf(nonce, chainId) ==
  SetTxStore(removeTransaction(TxStore, SafeAddress, NoTxHash, <<nonce>>, chainId))

RemoveAllOf(chainId) ==
  SetTxStore(removeTransaction(TxStore, SafeAddress, NoTxHash, NoNonce, chainId))

NotTxStore == <<safeVars, txPageVars, chainVars, msgStoreVars, wcVars, appVars>>

SaveTransaction ==
  /\ \E txObj \in TxPool, chainId \in StoreChainArgs : SaveTransactionOf(txObj, chainId)
  /\ UNCHANGED NotTxStore

ImportTx ==
  /\ \E json \in ImportFiles, chainId \in StoreChainArgs : ImportTxOf(json, chainId)
  /\ UNCHANGED NotTxStore

RemoveTransaction ==
  /\ \E nonce \in 0..MaxNonce, chainId \in StoreChainArgs : RemoveTransactionOf(nonce, chainId)
  /\ UNCHANGED NotTxStore

RemoveAllTransactions ==
  /\ \E chainId \in StoreChainArgs : RemoveAllOf(chainId)
  /\ UNCHANGED NotTxStore

\* page load: the provider mounts with an empty map and hydrates it
Hydrate ==
  /\ currentTxMap' = HydratedTxMap(localStorageTx)
  /\ UNCHANGED localStorageTx
  /\ UNCHANGED NotTxStore

Next ==
  \/ SaveTransaction
  \/ ImportTx
  \/ RemoveTransaction
  \/ RemoveAllTransactions
  \/ Hydrate

Spec == Init /\ [][Next]_vars

---------------------------------------------------------------------------
(* Properties of the transaction store *)

NoncesOf(txs) == {Number(txs[i].data.nonce) : i \in 1..Len(txs)}
SameEntity(t, u) ==
  /\ Number(t.data.nonce) = Number(u.data.nonce)
  /\ t.data.value = u.data.value
  /\ t.data.data = u.data.data

\* C3 (as claimed): importing a partially signed copy of a queued transaction
\* (same nonce and data) leaves the stored entry with the union of the two
\* signature sets, so that the order of the merges does not matter.
C3_MergeConverges ==
  [][\A json \in ImportFiles, chainId \in StoreChainArgs :
       ImportTxOf(json, chainId) =>
         LET key == Key(SafeAddress, chainId)
             imported == ImportedTxs(json)
         IN \A i \in 1..Len(currentTxMap[key]), j \in 1..Len(imported) :
              SameEntity(currentTxMap[key][i], imported[j]) =>
                \E m \in 1..Len(currentTxMap'[key]) :
                  /\ SameEntity(currentTxMap'[key][m], imported[j])
                  /\ SigSet(currentTxMap'[key][m].signatures) =
                       SigSet(currentTxMap[key][i].signatures)
                         \cup SigSet(imported[j].signatures)]_vars

\* C6 (as claimed): a key's queue never holds two transactions with the same
\* nonce value, whatever the representation of the nonces.
C6_OneTxPerNonce ==
  \A k \in Keys : \A i, j \in 1..Len(currentTxMap[k]) :
    i # j => Number(currentTxMap[k][i].data.nonce) # Number(currentTxMap[k][j].data.nonce)

IsSortedByNonce(txs) ==
  \A i, j \in 1..Len(txs) :
    i < j => Number(txs[i].data.nonce) <= Number(txs[j].data.nonce)

\* C7: in every reachable state the queue of every key, in memory and as
\* persisted, is sorted by nonce ascending, and getTransaction returns a
\* queued transaction with the lowest nonce.
C7_SortedByNonce ==
  \A c \in ChainArgs :
    LET k == Key(SafeAddress, c)
        first == getTransaction(currentTxMap, SafeAddress, c)
    IN /\ IsSortedByNonce(currentTxMap[k])
       /\ IsSortedByNonce(localStorageTx[k])
       /\ (first = <<>>) = (currentTxMap[k] = <<>>)
       /\ first # <<>> =>
            \A i \in 1..Len(currentTxMap[k]) :
              Number(first[1].data.nonce) <= Number(currentTxMap[k][i].data.nonce)

\* a queue with two different nonces, where the order is decided by the sort
C7_Witness ==
  \E k \in Keys :
    /\ Len(currentTxMap[k]) >= 2
    /\ Number(currentTxMap[k][1].data.nonce) < Number(currentTxMap[k][2].data.nonce)
    /\ localStorageTx[k] = StoredTxs(currentTxMap[k])

\* C8 (as claimed): importTx replaces every local entry whose nonce is in the
\* import by the imported entry, keeps every other local entry unchanged,
\* and an unparsable or empty import changes nothing.
C8_ImportLastWins ==
  [][\A json \in ImportFiles, chainId \in StoreChainArgs :
       ImportTxOf(json, chainId) =>
         LET key == Key(SafeAddress, chainId)
             imported == ImportedTxs(json)
             before == currentTxMap[key]
             after == currentTxMap'[key]
         IN /\ imported = <<>> => UNCHANGED vars
            /\ \A i \in 1..Len(before) :
                 IF Number(before[i].data.nonce) \in NoncesOf(imported)
                 THEN \A m \in 1..Len(after) :
                        Number(after[m].data.nonce) = Number(before[i].data.nonce) =>
                          \E j \in 1..Len(imported) : after[m] = imported[j]
                 ELSE \E m \in 1..Len(after) : after[m] = before[i]
            /\ \A k \in Keys \ {key} :
                 /\ currentTxMap'[k] = currentTxMap[k]
                 /\ localStorageTx'[k] = localStorageTx[k]]_vars

KeptByNonce(txs, nonce) == SelectSeq(txs, LAMBDA tx : Number(tx.data.nonce) # nonce)

\* C9: removeTransaction with a nonce deletes the entry with that nonce from
\* the key's queue and keeps every other entry of the key, in order; without
\* hash and nonce it empties the queue of the key; every other key is left
\* unchanged and the persisted record of the key matches the result.
C9_RemoveFrame ==
  [][/\ \A nonce \in 0..MaxNonce, chainId \in StoreChainArgs :
          RemoveTransactionOf(nonce, chainId) =>
            LET key == Key(SafeAddress, chainId)
            IN /\ nonce \notin NoncesOf(currentTxMap'[key])
               /\ currentTxMap'[key] = KeptByNonce(currentTxMap[key], nonce)
               /\ localStorageTx'[key] = StoredTxs(currentTxMap'[key])
               /\ \A k \in Keys \ {key} :
                    /\ currentTxMap'[k] = currentTxMap[k]
                    /\ localStorageTx'[k] = localStorageTx[k]
     /\ \A chainId \in StoreChainArgs :
          RemoveAllOf(chainId) =>
            LET key == Key(SafeAddress, chainId)
            IN /\ currentTxMap'[key] = <<>>
               /\ localStorageTx'[key] = <<>>
               /\ \A k \in Keys \ {key} :
                    /\ currentTxMap'[k] = currentTxMap[k]
                    /\ localStorageTx'[k] = localStorageTx[k]]_vars

\* a state in which a removal by nonce has an entry to delete, another entry
\* of the key to keep and another key to leave alone
C9_Witness ==
  \E c \in StoreChainArgs, d \in StoreChainArgs :
    /\ c # d
    /\ Len(currentTxMap[Key(SafeAddress, c)]) >= 2
    /\ Cardinality(NoncesOf(currentTxMap[Key(SafeAddress, c)])) >= 2
    /\ currentTxMap[Key(SafeAddress, d)] # <<>>
    /\ localStorageTx[Key(SafeAddress, d)] # <<>>

---------------------------------------------------------------------------
(* The connected wallet and the Safe on the chain *)

\* String(chain.id) of the connected chain
ChainId == "1"

\* useAccount().address: the connected wallet, an owner
connectedAddress == "0xA"

\* the owners and the threshold the Safe contract holds
Owners == {"0xA", "0xB"}
Threshold == Cardinality(Owners)

\* v || d on strings
OrDefault(v, d) == IF v = "" THEN d ELSE v

\* /^0x[a-fA-F0-9]{40}$/ on the signer strings of the model
IsAddress(s) == s \in Signers

\* /^0x[a-fA-F0-9]+$/ on the signature strings of the model
SignatureStrings == {"sigA", "sigA2", "sigB"}
IsHex(d) == d \in SignatureStrings

\* the signature the connected wallet produces for a transaction or message
WalletSignature == EthSafeSignature(connectedAddress, "sigA", FALSE)

\* index of the first transaction whose hash is txHash, 0 if none
FindByHash(txs, txHash) ==
  IF \E i \in 1..Len(txs) : getTransactionHash(txs[i]) = txHash
  THEN CHOOSE i \in 1..Len(txs) :
         /\ getTransactionHash(txs[i]) = txHash
         /\ \A j \in 1..(i - 1) : getTransactionHash(txs[j]) # txHash
  ELSE 0

TxHashes == {getTransactionHash(t) : t \in TxPool}

---------------------------------------------------------------------------
(* useSafe *)

\* the chain reads of fetchSafeInfo
SafeInfoOf(nonce) == [threshold |-> Threshold, nonce |-> nonce]

\* kit.createTransaction(options): a transaction without signatures; value
\* and data are normalised, the nonce is a number
buildSafeTransaction(st, value, data, nonce) ==
  LET safeTxObj == EthSafeTransaction(
                     TxData(OrDefault(value, "0"), OrDefault(data, "0x"), NumNonce(nonce)))
  IN saveTransaction(st, SafeAddress, safeTxObj, ChainId)

\* signSafeTransaction(safeTx): null without a kit; otherwise the
\* transaction is copied with normalised data, signed by the connected
\* wallet and saved under the connected chain
signSafeTransaction(st, hasKit, tx) ==
  IF ~hasKit
  THEN [st |-> st, signedTx |-> <<>>]
  ELSE LET normalizedTxData == [tx.data EXCEPT !.value = OrDefault(@, "0"),
                                               !.data = OrDefault(@, "0x")]
           normalizedSafeTx == [data |-> normalizedTxData,
                                signatures |-> addSignatures(<<>>, tx.signatures)]
           signedTx == [normalizedSafeTx EXCEPT
                          !.signatures = addSignature(@, WalletSignature)]
       IN [st |-> saveTransaction(st, SafeAddress, signedTx, ChainId),
           signedTx |-> <<signedTx>>]

\* kit.executeTransaction(safeTx) of the library: the executing owner's
\* approval is added when that owner has not signed, the call throws when
\* signatures are still missing, and the contract executes a transaction
\* only with the nonce it holds
CanExecute(tx, onChainNonce) ==
  LET approval == IF connectedAddress \in Owners
                     /\ ~HasSignature(tx.signatures, toLowerCase(connectedAddress))
                  THEN 1 ELSE 0
  IN /\ Len(tx.signatures) + approval >= Threshold
     /\ Number(tx.data.nonce) = onChainNonce

\* broadcastSafeTransaction(safeTx): null without a kit, the receipt when
\* the transaction was sent, an exception otherwise
Outcomes == {"ok", "fail"}
broadcastSafeTransaction(hasKit, tx, onChainNonce, outcome) ==
  IF ~hasKit THEN "null"
  ELSE IF CanExecute(tx, onChainNonce) /\ outcome = "ok" THEN "sent"
  ELSE "throws"

\* getSafeTransactionCurrent(): getTransaction(safeAddress)
getSafeTransactionCurrent(mem, hasKit) ==
  IF ~hasKit THEN <<>> ELSE getTransaction(mem, SafeAddress, NoChain)

---------------------------------------------------------------------------
(* TokenTransferModal *)

Max(a, b) == IF a >= b THEN a ELSE b
MaxOf(S) == CHOOSE m \in S : \A x \in S : x <= m

\* nextAvailableNonce without the + 1 on the highest queued nonce
nextAvailableNonce_NoIncrement(queuedTransactions, info) ==
  IF info = <<>> THEN 0
  ELSE LET queuedNonces == [i \in 1..Len(queuedTransactions) |->
                              Number(queuedTransactions[i].data.nonce)]
           highestQueued == IF Len(queuedNonces) > 0
                            THEN MaxOf({queuedNonces[i] : i \in 1..Len(queuedNonces)})
                            ELSE info[1].nonce - 1
       IN Max(highestQueued, info[1].nonce)

\* nextAvailableNonce (useMemo over safeInfo and queuedTransactions)
nextAvailableNonce(queuedTransactions, info) ==
  IF info = <<>> THEN 0
  ELSE LET queuedNonces == [i \in 1..Len(queuedTransactions) |->
                              Number(queuedTransactions[i].data.nonce)]
           highestQueued == IF Len(queuedNonces) > 0
                            THEN MaxOf({queuedNonces[i] : i \in 1..Len(queuedNonces)})
                            ELSE info[1].nonce - 1
       IN Max(highestQueued + 1, info[1].nonce)

---------------------------------------------------------------------------
(* TxDetailsClient *)

\* fetchTx: the queued transaction of the connected chain with hash txHash
fetchTx(mem, txHash) ==
  LET allTxs == getAllTransactions(mem, SafeAddress, ChainId)
      i == FindByHash(allTxs, txHash)
  IN IF i > 0 THEN <<allTxs[i]>> ELSE <<>>

\* hasSignedThisTx
hasSignedThisTx(tx) ==
  IF tx # <<>> THEN HasSignature(tx[1].signatures, toLowerCase(connectedAddress)) ELSE FALSE

\* canExecuteDirectly
canExecuteDirectly(tx, info, owner) ==
  IF tx # <<>> /\ info # <<>> /\ owner /\ ~hasSignedThisTx(tx)
  THEN info[1].threshold - Len(tx[1].signatures) = 1
  ELSE FALSE

\* the "Broadcast Transaction" button is enabled
canBroadcast(tx, info) ==
  tx # <<>> /\ info # <<>> /\ Len(tx[1].signatures) >= info[1].threshold

\* handleAddSignature storing the pasted signature without the signer map
handleAddSignature_Append(st, tx, signerAddress, signatureData) ==
  IF signerAddress = "" \/ signatureData = "" \/ ~IsAddress(signerAddress)
     \/ ~IsHex(signatureData)
  THEN [st |-> st, safeTx |-> <<tx>>]
  ELSE LET ethSignature == EthSafeSignature(signerAddress, signatureData, FALSE)
           updatedTx == [tx EXCEPT !.signatures = Append(@, ethSignature)]
       IN [st |-> saveTransaction(st, SafeAddress, updatedTx, ChainId),
           safeTx |-> <<updatedTx>>]

\* handleAddSignature(): validates the pasted signer and signature, adds
\* the signature to safeTx and saves it under the connected chain
handleAddSignature(st, tx, signerAddress, signatureData) ==
  IF signerAddress = "" \/ signatureData = "" \/ ~IsAddress(signerAddress)
     \/ ~IsHex(signatureData)
  THEN [st |-> st, safeTx |-> <<tx>>]
  ELSE LET ethSignature == EthSafeSignature(signerAddress, signatureData, FALSE)
           updatedTx == [tx EXCEPT !.signatures = addSignature(@, ethSignature)]
       IN [st |-> saveTransaction(st, SafeAddress, updatedTx, ChainId),
           safeTx |-> <<updatedTx>>]

\* handleBroadcast(): the store after the call; the transaction is removed
\* from the queue of the connected chain unless the broadcast threw
handleBroadcast(st, hasKit, tx, onChainNonce, outcome) ==
  IF broadcastSafeTransaction(hasKit, tx, onChainNonce, outcome) = "throws"
  THEN st
  ELSE removeTransaction(st, SafeAddress, NoTxHash, <<Number(tx.data.nonce)>>, ChainId)

\* BroadcastModal onSuccess: removeTransaction(safeAddress)
onSuccess(st) == removeTransaction(st, SafeAddress, NoTxHash, NoNonce, NoChain)

---------------------------------------------------------------------------
(* SafeDashboardClient *)

\* share links: ?importTx=<tx with signatures>, ?importSig=<txHash, signature>
ImportTxLink(tx) == [kind |-> "importTx", urlChainId |-> "", txHash |-> <<>>,
                     tx |-> <<FileEntry(tx)>>, signature |-> <<>>]
ImportSigLink(txHash, sig) == [kind |-> "importSig", urlChainId |-> "", txHash |-> txHash,
                               tx |-> <<>>, signature |-> <<sig>>]

\* handleSharedLinks, importSig: the queued transaction with the hash of the
\* link gets the signature (the queued object itself is changed) and is
\* saved with saveTransaction(safeAddress, matchingTx)
importSig(st, parsed, chainId) ==
  LET key == Key(SafeAddress, chainId)
      allTransactions == getAllTransactions(st.mem, SafeAddress, chainId)
      i == FindByHash(allTransactions, parsed.txHash)
  IN IF i = 0 THEN st
     ELSE LET ethSignature == EthSafeSignature(parsed.signature[1].signer,
                                               parsed.signature[1].data,
                                               parsed.signature[1].isContractSignature)
              matchingTx == [allTransactions[i] EXCEPT
                               !.signatures = addSignature(@, ethSignature)]
              mutated == [st EXCEPT !.mem[key][i] = matchingTx]
          IN saveTransaction(mutated, SafeAddress, matchingTx, NoChain)

\* handleSharedLinks(): the store after the link in the URL is handled
handleSharedLinks(st, parsed) ==
  LET chainId == OrDefault(parsed.urlChainId, ChainId)
  IN CASE parsed.kind = "importTx" ->
            importTx(st, SafeAddress, [kind |-> "tx", txs |-> parsed.tx], chainId)
       [] parsed.kind = "importSig" -> importSig(st, parsed, chainId)
       [] OTHER -> st

\* handleDeleteTransaction(txHash, nonce)
handleDeleteTransaction(st, txHash, nonce) ==
  removeTransaction(st, SafeAddress, <<txHash>>, <<nonce>>, ChainId)

---------------------------------------------------------------------------
(* SafeMessageProvider *)

\* new EthSafeMessage(data), no signatures yet
EthSafeMessage(data) == [data |-> data, signatures |-> <<>>]

\* kit.getSafeMessageHash(data): the SafeMessage digest of the message
getSafeMessageHash(data) == <<"SafeMessage", data>>

\* { hash, data, signatures: Array.from(message.signatures.values()) }
StoredMsg(entry) ==
  [hash |-> entry.hash, data |-> entry.message.data,
   signatures |-> entry.message.signatures]
StoredMsgs(entries) == [i \in 1..Len(entries) |-> StoredMsg(entries[i])]

\* persistToLocalStorage(): the whole in-memory map is written
persistToLocalStorage(mem) == [k \in Keys |-> StoredMsgs(mem[k])]

\* existingMsgs.findIndex((entry) => entry.hash === messageHash), 0 if none
FindMsgIndex(entries, hash) ==
  IF \E i \in 1..Len(entries) : entries[i].hash = hash
  THEN CHOOSE i \in 1..Len(entries) :
         /\ entries[i].hash = hash
         /\ \A j \in 1..(i - 1) : entries[j].hash # hash
  ELSE 0

\* saveMessage that pushes the entry without looking for the hash
saveMessage_Push(ms, safeAddress, msgObj, hash, chainId) ==
  LET key == Key(safeAddress, chainId)
      mem == [ms.mem EXCEPT ![key] = Append(@, [message |-> msgObj, hash |-> hash])]
  IN [mem |-> mem, ls |-> persistToLocalStorage(mem)]

\* saveMessage(safeAddress, msgObj, messageHash, chainId)
saveMessage(ms, safeAddress, msgObj, hash, chainId) ==
  LET key == Key(safeAddress, chainId)
      existingMsgs == ms.mem[key]
      existingIndex == FindMsgIndex(existingMsgs, hash)
      entry == [message |-> msgObj, hash |-> hash]
      updated == IF existingIndex > 0
                 THEN [existingMsgs EXCEPT ![existingIndex] = entry]
                 ELSE Append(existingMsgs, entry)
      mem == [ms.mem EXCEPT ![key] = updated]
  IN [mem |-> mem, ls |-> persistToLocalStorage(mem)]

\* getAllMessages(safeAddress, chainId)
getAllMessages(mem, safeAddress, chainId) ==
  LET entries == mem[Key(safeAddress, chainId)]
  IN [i \in 1..Len(entries) |-> entries[i].message]

\* removeMessage(safeAddress, messageHash, chainId)
removeMessage(ms, safeAddress, hash, chainId) ==
  LET key == Key(safeAddress, chainId)
      mem == [ms.mem EXCEPT ![key] = SelectSeq(@, LAMBDA entry : entry.hash # hash)]
  IN [mem |-> mem, ls |-> persistToLocalStorage(mem)]

\* hydration on mount: every persisted key is parsed into the in-memory map
HydratedMsgMap(ls) ==
  [k \in Keys |->
     [i \in 1..Len(ls[k]) |->
        [message |-> [data |-> ls[k][i].data,
                      signatures |-> addSignatures(<<>>, ls[k][i].signatures)],
         hash |-> ls[k][i].hash]]]

MsgStore == [mem |-> currentMsgMap, ls |-> localStorageMsg]

SetMsgStore(ms) ==
  /\ currentMsgMap' = ms.mem
  /\ localStorageMsg' = ms.ls

---------------------------------------------------------------------------
(* WalletConnectSignClient *)

\* a personal_sign session request of a dApp
SignRequest == [topic |-> "t1", id |-> "r1", message |-> "hello"]

\* const threshold = safeInfo?.threshold || 1
ThresholdOrOne(info) ==
  IF info = <<>> THEN 1
  ELSE IF info[1].threshold = 0 THEN 1 ELSE info[1].threshold

\* index of the first stored message whose digest is hash, 0 if none
FindMsgByDigest(messages, hash) ==
  IF \E i \in 1..Len(messages) : getSafeMessageHash(messages[i].data) = hash
  THEN CHOOSE i \in 1..Len(messages) :
         /\ getSafeMessageHash(messages[i].data) = hash
         /\ \A j \in 1..(i - 1) : getSafeMessageHash(messages[j].data) # hash
  ELSE 0

\* kit.signMessage(message): a copy of the message with the signature of
\* the connected wallet added
signMessage(message) ==
  [data |-> message.data,
   signatures |-> addSignature(addSignatures(<<>>, message.signatures), WalletSignature)]

\* the response sent to the dApp by approveRequest
Response(request, message) ==
  [id |-> request.id, result |-> encodedSignatures(message.signatures),
   signatures |-> message.signatures]

---------------------------------------------------------------------------
(* Inputs of the pages *)

\* what a user pastes into the "add signature" form: signer, signature data
PastedSignatures == {<<"0xB", "sigB">>, <<"0xa", "sigA2">>, <<"0xZ", "sigB">>}

\* share links received from the other owner
SharedLinks ==
  {ImportSigLink(h, SigB) : h \in TxHashes}
  \cup {ImportTxLink(TxOf(NumNonce(0), <<SigB>>))}

\* the payload of the token transfer
TransferData == "0xd1"

\* the nonce field of the transfer dialog: left at its default or typed
CustomNonces == {<<>>} \cup {<<n>> : n \in 0..MaxNonce}

---------------------------------------------------------------------------
(* The handlers of the pages as steps *)

\* fetchSafeInfo, first part: kitRef.current = kit, before the chain reads
ConnectKit ==
  /\ ~kit
  /\ kit' = TRUE
  /\ UNCHANGED <<safeInfo, isOwner, txStoreVars, txPageVars, chainVars, msgStoreVars, wcVars, appVars>>

\* fetchSafeInfo, second part: the chain reads return, setSafeInfo, setIsOwner
SetSafeInfo ==
  /\ kit
  /\ safeInfo = <<>>
  /\ safeInfo' = <<SafeInfoOf(chainNonce)>>
  /\ isOwner' = (connectedAddress \in Owners)
  /\ UNCHANGED <<kit, txStoreVars, txPageVars, chainVars, msgStoreVars, wcVars, appVars>>

\* a full page load with or without a share link in the URL: the providers
\* hydrate from localStorage, every component state starts anew
PageLoadOf(link) ==
  /\ currentTxMap' = HydratedTxMap(localStorageTx)
  /\ currentMsgMap' = HydratedMsgMap(localStorageMsg)
  /\ kit' = FALSE
  /\ safeInfo' = <<>>
  /\ isOwner' = FALSE
  /\ safeTx' = <<>>
  /\ showModal' = FALSE
  /\ broadcastError' = FALSE
  /\ searchParams' = link
  /\ signedMessage' = <<>>
  /\ messageHash' = ""
  /\ UNCHANGED <<localStorageTx, localStorageMsg, chainVars, pendingRequest, approved, appVars>>

PageLoad == \E link \in {<<>>} \cup {<<l>> : l \in SharedLinks} : PageLoadOf(link)

\* SafeDashboardClient effect: handleSharedLinks once the kit is there
HandleSharedLinks ==
  /\ kit
  /\ searchParams # <<>>
  /\ SetTxStore(handleSharedLinks(TxStore, searchParams[1]))
  /\ searchParams' = <<>>
  /\ UNCHANGED <<safeVars, safeTx, showModal, broadcastError, chainVars, msgStoreVars, wcVars, appVars>>

\* TokenTransferModal.handleTransfer: builds the transfer with the nonce of
\* the nonce field, which defaults to nextAvailableNonce
HandleTransferOf(customNonce) ==
  LET queuedTransactions == getAllTransactions(currentTxMap, SafeAddress, ChainId)
      nonce == IF customNonce = <<>>
               THEN nextAvailableNonce(queuedTransactions, safeInfo)
               ELSE customNonce[1]
  IN /\ kit
     /\ safeTx = <<>>
     /\ nonce <= MaxNonce
     /\ SetTxStore(buildSafeTransaction(TxStore, "0", TransferData, nonce))
     /\ UNCHANGED <<safeVars, txPageVars, chainVars, msgStoreVars, wcVars, appVars>>

HandleTransfer == \E customNonce \in CustomNonces : HandleTransferOf(customNonce)

\* TxDetailsClient mounts for the transaction with hash txHash
OpenTxPage ==
  /\ kit
  /\ safeTx = <<>>
  /\ \E txHash \in TxHashes :
       /\ fetchTx(currentTxMap, txHash) # <<>>
       /\ safeTx' = fetchTx(currentTxMap, txHash)
  /\ showModal' = FALSE
  /\ broadcastError' = FALSE
  /\ UNCHANGED <<safeVars, txStoreVars, searchParams, chainVars, msgStoreVars, wcVars, appVars>>

\* back to the dashboard: TxDetailsClient unmounts
BackToDashboard ==
  /\ safeTx # <<>>
  /\ safeTx' = <<>>
  /\ showModal' = FALSE
  /\ broadcastError' = FALSE
  /\ UNCHANGED <<safeVars, txStoreVars, searchParams, chainVars, msgStoreVars, wcVars, appVars>>

\* TxDetailsClient.handleSign, offered to an owner who has not signed
HandleSign ==
  /\ safeTx # <<>>
  /\ isOwner
  /\ ~hasSignedThisTx(safeTx)
  /\ LET signed == signSafeTransaction(TxStore, kit, safeTx[1])
     IN /\ SetTxStore(signed.st)
        /\ safeTx' = IF signed.signedTx = <<>> THEN safeTx ELSE signed.signedTx
  /\ UNCHANGED <<safeVars, showModal, broadcastError, searchParams, chainVars,
                 msgStoreVars, wcVars, appVars>>

\* TxDetailsClient.handleAddSignature with the pasted signer and signature
HandleAddSignatureOf(signerAddress, signatureData) ==
  /\ safeTx # <<>>
  /\ LET added == handleAddSignature(TxStore, safeTx[1], signerAddress, signatureData)
     IN /\ SetTxStore(added.st)
        /\ safeTx' = added.safeTx
  /\ UNCHANGED <<safeVars, showModal, broadcastError, searchParams, chainVars,
                 msgStoreVars, wcVars, appVars>>

HandleAddSignature ==
  \E pasted \in PastedSignatures : HandleAddSignatureOf(pasted[1], pasted[2])

\* the signature of the other owner is pasted
HandleAddSignatureB == HandleAddSignatureOf(SigB.signer, SigB.data)

\* SafeDashboardClient.handleImportTx: a file is imported for the connected chain
HandleImportTx ==
  /\ kit
  /\ safeTx = <<>>
  /\ \E json \in ImportFiles : SetTxStore(importTx(TxStore, SafeAddress, json, ChainId))
  /\ UNCHANGED <<safeVars, txPageVars, chainVars, msgStoreVars, wcVars, appVars>>

\* SafeDashboardClient.handleDeleteTransaction for a queued transaction
HandleDeleteTransaction ==
  /\ safeTx = <<>>
  /\ \E i \in 1..Len(currentTxMap[Key(SafeAddress, ChainId)]) :
       LET tx == currentTxMap[Key(SafeAddress, ChainId)][i]
       IN SetTxStore(handleDeleteTransaction(TxStore, getTransactionHash(tx),
                                             Number(tx.data.nonce)))
  /\ UNCHANGED <<safeVars, txPageVars, chainVars, msgStoreVars, wcVars, appVars>>

\* another owner executes the transaction with the current nonce elsewhere
OtherOwnerExecutes ==
  /\ chainNonce <= MaxNonce
  /\ chainNonce' = chainNonce + 1
  /\ UNCHANGED <<executed, safeVars, txStoreVars, txPageVars, msgStoreVars, wcVars, appVars>>

\* TxDetailsClient.handleBroadcast; a transaction that is sent is executed
\* by the Safe contract, which then holds the next nonce
HandleBroadcastOf(outcome) ==
  /\ safeTx # <<>>
  /\ LET result == broadcastSafeTransaction(kit, safeTx[1], chainNonce, outcome)
         sent == [txHash |-> getTransactionHash(safeTx[1]),
                  size |-> Len(safeTx[1].signatures)]
     IN /\ SetTxStore(handleBroadcast(TxStore, kit, safeTx[1], chainNonce, outcome))
        /\ showModal' = TRUE
        /\ broadcastError' = (result = "throws")
        /\ executed' = IF result = "sent" THEN <<sent>> ELSE executed
        /\ chainNonce' = IF result = "sent" THEN chainNonce + 1 ELSE chainNonce
  /\ UNCHANGED <<safeVars, safeTx, searchParams, msgStoreVars, wcVars, appVars>>

\* the "Broadcast Transaction" button
ClickBroadcast ==
  /\ canBroadcast(safeTx, safeInfo)
  /\ \E outcome \in Outcomes : HandleBroadcastOf(outcome)

\* the "Execute Transaction" entry of the sign dropdown
ClickExecute ==
  /\ canExecuteDirectly(safeTx, safeInfo, isOwner)
  /\ \E outcome \in Outcomes : HandleBroadcastOf(outcome)

\* BroadcastModal onSuccess ("Back to Safe") after a broadcast without error
ModalSuccess ==
  /\ showModal
  /\ ~broadcastError
  /\ SetTxStore(onSuccess(TxStore))
  /\ showModal' = FALSE
  /\ safeTx' = <<>>
  /\ UNCHANGED <<safeVars, broadcastError, searchParams, chainVars, msgStoreVars, wcVars, appVars>>

\* BroadcastModal onClose
ModalClose ==
  /\ showModal
  /\ showModal' = FALSE
  /\ UNCHANGED <<safeVars, txStoreVars, safeTx, broadcastError, searchParams, chainVars,
                 msgStoreVars, wcVars, appVars>>

\* WalletConnect session_request event: setPendingRequest(request)
SessionRequest ==
  /\ pendingRequest = <<>>
  /\ pendingRequest' = <<SignRequest>>
  /\ UNCHANGED <<safeVars, txStoreVars, txPageVars, chainVars, msgStoreVars,
                 signedMessage, messageHash, approved, appVars>>

\* the response goes to the dApp, the message is removed under the
\* messageHash state of the render, the page navigates to the dashboard
ApproveAndLeave(saved, message) ==
  /\ approved' = <<Response(pendingRequest[1], message)>>
  /\ pendingRequest' = <<>>
  /\ SetMsgStore(removeMessage(saved, SafeAddress, messageHash, ChainId))
  /\ signedMessage' = <<>>
  /\ messageHash' = ""

\* WalletConnectSignClient.handleSign; outcome is that of approveRequest
WcHandleSignOf(outcome) ==
  /\ pendingRequest # <<>>
  /\ kit
  /\ ~(signedMessage # <<>>
       /\ HasSignature(signedMessage[1].message.signatures, toLowerCase(connectedAddress)))
  /\ LET messageToSign == pendingRequest[1].message
         msgHash == getSafeMessageHash(messageToSign)
         allMessages == getAllMessages(currentMsgMap, SafeAddress, ChainId)
         i == FindMsgByDigest(allMessages, msgHash)
         messageToSignWith ==
           IF i > 0 /\ Len(allMessages[i].signatures) > 0 THEN allMessages[i]
           ELSE IF signedMessage # <<>> THEN signedMessage[1].message
           ELSE EthSafeMessage(messageToSign)
         newSignedMessage == signMessage(messageToSignWith)
         saved == saveMessage(MsgStore, SafeAddress, newSignedMessage, msgHash, ChainId)
         signatureCount == Len(newSignedMessage.signatures)
         threshold == ThresholdOrOne(safeInfo)
     IN IF signatureCount >= threshold /\ outcome = "ok"
        THEN ApproveAndLeave(saved, newSignedMessage)
        ELSE /\ SetMsgStore(saved)
             /\ signedMessage' = <<[message |-> newSignedMessage, isPlain |-> FALSE]>>
             /\ messageHash' = msgHash
             /\ UNCHANGED <<pendingRequest, approved>>
  /\ UNCHANGED <<safeVars, txStoreVars, txPageVars, chainVars, appVars>>

WcHandleSign == \E outcome \in Outcomes : WcHandleSignOf(outcome)

\* WalletConnectSignClient.handleAddSignature; signedMessage.addSignature
\* throws on the plain copy that setSignedMessage({ ...signedMessage }) left
WcHandleAddSignatureOf(signerAddress, signatureData, outcome) ==
  /\ signedMessage # <<>>
  /\ kit
  /\ IF ~IsAddress(signerAddress) \/ ~IsHex(signatureData) \/ signedMessage[1].isPlain
     THEN UNCHANGED <<msgStoreVars, wcVars>>
     ELSE LET ethSignature == EthSafeSignature(signerAddress, signatureData, FALSE)
              updated == [signedMessage[1].message EXCEPT
                            !.signatures = addSignature(@, ethSignature)]
              saved == saveMessage(MsgStore, SafeAddress, updated, messageHash, ChainId)
              threshold == ThresholdOrOne(safeInfo)
          IN IF Len(updated.signatures) >= threshold /\ pendingRequest # <<>>
                /\ outcome = "ok"
             THEN ApproveAndLeave(saved, updated)
             ELSE /\ SetMsgStore(saved)
                  /\ signedMessage' = <<[message |-> updated, isPlain |-> TRUE]>>
                  /\ UNCHANGED <<pendingRequest, messageHash, approved>>
  /\ UNCHANGED <<safeVars, txStoreVars, txPageVars, chainVars, appVars>>

WcHandleAddSignature ==
  \E pasted \in PastedSignatures, outcome \in Outcomes :
    WcHandleAddSignatureOf(pasted[1], pasted[2], outcome)

\* the nonce arbitration of the transfer dialog over the queue of the chain
NextNonce ==
  \/ ConnectKit
  \/ SetSafeInfo
  \/ PageLoad
  \/ OtherOwnerExecutes
  \/ HandleTransfer
  \/ HandleImportTx
  \/ HandleDeleteTransaction

SpecNonce == Init /\ [][NextNonce]_vars

\* collecting signatures on the transaction page
NextSig ==
  \/ ConnectKit
  \/ SetSafeInfo
  \/ PageLoad
  \/ HandleTransfer
  \/ OpenTxPage
  \/ BackToDashboard
  \/ HandleSign
  \/ HandleAddSignature

SpecSig == Init /\ [][NextSig]_vars

\* the transaction pages of one browser tab, with share links and reloads
NextPage ==
  \/ ConnectKit
  \/ SetSafeInfo
  \/ PageLoad
  \/ HandleSharedLinks
  \/ HandleTransfer
  \/ OpenTxPage
  \/ HandleSign
  \/ HandleAddSignatureB
  \/ ClickBroadcast
  \/ ClickExecute
  \/ ModalSuccess

SpecPage == Init /\ [][NextPage]_vars

\* signing and sending: a transaction to its broadcast, a message to the
\* response of the WalletConnect request
NextGate ==
  \/ ConnectKit
  \/ SetSafeInfo
  \/ HandleTransfer
  \/ OpenTxPage
  \/ HandleSign
  \/ HandleAddSignatureB
  \/ ClickBroadcast
  \/ ClickExecute
  \/ ModalClose
  \/ SessionRequest
  \/ WcHandleSign
  \/ WcHandleAddSignature

SpecGate == Init /\ [][NextGate]_vars

---------------------------------------------------------------------------
(* Properties of the nonce arbitration *)

\* C10: nextAvailableNonce is the on-chain nonce when the queue of the chain
\* is empty and max(highest queued nonce + 1, on-chain nonce) otherwise: it
\* is the least number that is neither below the on-chain nonce nor at or
\* below a queued nonce, so it is never a nonce already queued; the queue
\* {5, 7} with on-chain nonce 3 gives 8, the empty queue gives 3.
C10_NextAvailableNonce ==
  LET queuedTransactions == getAllTransactions(currentTxMap, SafeAddress, ChainId)
      queued == NoncesOf(queuedTransactions)
      next == nextAvailableNonce(queuedTransactions, safeInfo)
  IN /\ safeInfo # <<>> =>
          /\ next = IF queued = {} THEN safeInfo[1].nonce
                    ELSE Max(MaxOf(queued) + 1, safeInfo[1].nonce)
          /\ next >= safeInfo[1].nonce
          /\ \A n \in queued : next > n
          /\ next = safeInfo[1].nonce \/ (next - 1) \in queued
     /\ nextAvailableNonce(<<TxOf(NumNonce(5), <<>>), TxOf(NumNonce(7), <<>>)>>,
                           <<SafeInfoOf(3)>>) = 8
     /\ nextAvailableNonce(<<TxOf(StrNonce(5), <<>>), TxOf(NumNonce(7), <<>>)>>,
                           <<SafeInfoOf(3)>>) = 8
     /\ nextAvailableNonce(<<>>, <<SafeInfoOf(3)>>) = 3

\* the dialog is open on a queue of two transactions whose highest nonce
\* decides the default of the nonce field
C10_Witness ==
  LET queuedTransactions == getAllTransactions(currentTxMap, SafeAddress, ChainId)
  IN /\ safeInfo # <<>>
     /\ Len(queuedTransactions) >= 2
     /\ nextAvailableNonce(queuedTransactions, safeInfo) > safeInfo[1].nonce
     /\ nextAvailableNonce(queuedTransactions, safeInfo)
          = MaxOf(NoncesOf(queuedTransactions)) + 1

---------------------------------------------------------------------------
(* Properties of the signature aggregation *)

UniqueSigners(sigs) ==
  \A i, j \in 1..Len(sigs) :
    i # j => toLowerCase(sigs[i].signer) # toLowerCase(sigs[j].signer)

\* the signature held for the signer of sig is sig
HoldsSignature(sigs, sig) ==
  /\ HasSignature(sigs, toLowerCase(sig.signer))
  /\ sigs[SigIndex(sigs, toLowerCase(sig.signer))] = sig

PageLoaded(st) == [mem |-> HydratedTxMap(st.ls), ls |-> st.ls]

\* a signature added to the queued transaction with hash txHash: by the
\* wallet on its page, by paste on its page, by a share link (a page load
\* with the link in the URL)
Ways == {"sign", "paste", "link"}
AddSignatureBy(way, st, txHash, sig) ==
  LET tx == fetchTx(st.mem, txHash)
  IN CASE way = "sign" ->
            IF tx = <<>> THEN st ELSE signSafeTransaction(st, TRUE, tx[1]).st
       [] way = "paste" ->
            IF tx = <<>> THEN st ELSE handleAddSignature(st, tx[1], sig.signer, sig.data).st
       [] way = "link" ->
            handleSharedLinks(PageLoaded(st), ImportSigLink(txHash, sig))

\* what the store holds for the transaction with hash txHash under the key
\* of the connected chain: the signature set and the encoded signatures of
\* the queued transaction, and the signature set of the persisted record
EntityOf(st, txHash) ==
  LET tx == fetchTx(st.mem, txHash)
      stored == fetchTx(PageLoaded(st).mem, txHash)
  IN [signatures |-> IF tx = <<>> THEN {} ELSE SigSet(tx[1].signatures),
      encoded |-> IF tx = <<>> THEN <<>> ELSE encodedSignatures(tx[1].signatures),
      persisted |-> IF stored = <<>> THEN {} ELSE SigSet(stored[1].signatures)]

\* C4 (as claimed): for a queued transaction, adding the signature of the
\* wallet (by signing, paste or share link) and the signature of the other
\* owner (by paste or share link) leaves the stored transaction with the
\* same signature set and the same encoded signatures in either order.
C4_OrderIndependent ==
  \A txHash \in TxHashes :
    fetchTx(currentTxMap, txHash) # <<>> =>
      \A w1 \in Ways, w2 \in Ways \ {"sign"} :
        LET s1 == WalletSignature
            s2 == SigB
            s1s2 == AddSignatureBy(w2, AddSignatureBy(w1, TxStore, txHash, s1), txHash, s2)
            s2s1 == AddSignatureBy(w1, AddSignatureBy(w2, TxStore, txHash, s2), txHash, s1)
        IN EntityOf(s1s2, txHash) = EntityOf(s2s1, txHash)

\* C5 (as claimed): every handler of the pages, all of them run for the
\* connected chain, changes only the queue under the key of the account and
\* that chain, in memory and as persisted; the queues of the other chains
\* and of the chain-less key stay as they are (a page load only hydrates).
C5_OnlyKeyOfChain ==
  [][~PageLoad =>
       \A k \in Keys \ {Key(SafeAddress, ChainId)} :
         /\ currentTxMap'[k] = currentTxMap[k]
         /\ localStorageTx'[k] = localStorageTx[k]]_vars

---------------------------------------------------------------------------
(* Properties of signing and sending *)

\* C1 (as claimed): a transaction is sent by handleBroadcast only when it
\* holds at least threshold signatures, and a response with the encoded
\* signatures of a message goes to the dApp only when the message holds at
\* least threshold signatures.
C1_ThresholdGate ==
  [][/\ \A outcome \in Outcomes :
          (HandleBroadcastOf(outcome)
             /\ broadcastSafeTransaction(kit, safeTx[1], chainNonce, outcome) = "sent")
            => Len(safeTx[1].signatures) >= Threshold
     /\ approved' # approved => Len(approved'[1].signatures) >= Threshold]_vars

---------------------------------------------------------------------------
(* useSafe: the owner-management builders *)

\* the longest owner list and the longest change list of the model
MaxOwners == 3
MaxChanges == 3

\* the sentinel of the owner linked list, 0x0000000000000000000000000000000000000001
SENTINEL_OWNERS == "0x1"

\* one encoded call of SAFE_ABI to the Safe itself: {to: safeAddress,
\* value: "0", data: encodeFunctionData(functionName, args), operation: 0};
\* an argument the function does not take is "" or 0
OwnerCall(functionName, prevOwner, owner, newOwner, threshold) ==
  [functionName |-> functionName, prevOwner |-> prevOwner, owner |-> owner,
   newOwner |-> newOwner, threshold |-> threshold]

\* a change of a change set: {type: "add" | "remove", address}
OwnerChange(type, address) == [type |-> type, address |-> address]

\* the mutant of findOwnerIndex: an address that is not found counts as the
\* first owner
findOwnerIndex_OrFirst(currentOwners, address) ==
  IF \E i \in 1..Len(currentOwners) : toLowerCase(currentOwners[i]) = toLowerCase(address)
  THEN CHOOSE i \in 1..Len(currentOwners) :
         /\ toLowerCase(currentOwners[i]) = toLowerCase(address)
         /\ \A j \in 1..(i - 1) : toLowerCase(currentOwners[j]) # toLowerCase(address)
  ELSE 1

\* owners.findIndex((o) => o.toLowerCase() === address.toLowerCase()), 1-based, 0 for -1
findOwnerIndex(currentOwners, address) ==
  IF \E i \in 1..Len(currentOwners) : toLowerCase(currentOwners[i]) = toLowerCase(address)
  THEN CHOOSE i \in 1..Len(currentOwners) :
         /\ toLowerCase(currentOwners[i]) = toLowerCase(address)
         /\ \A j \in 1..(i - 1) : toLowerCase(currentOwners[j]) # toLowerCase(address)
  ELSE 0

\* ownerIndex === 0 ? sentinel : currentOwners[ownerIndex - 1], 1-based
prevOwnerOf(currentOwners, ownerIndex) ==
  IF ownerIndex = 1 THEN SENTINEL_OWNERS ELSE currentOwners[ownerIndex - 1]

\* the mutant of filterOwner: the local owners list is not updated
filterOwner_Keep(currentOwners, ownerIndex) == currentOwners

\* currentOwners.filter((_, i) => i !== ownerIndex)
filterOwner(currentOwners, ownerIndex) ==
  [i \in 1..(Len(currentOwners) - 1) |->
     IF i < ownerIndex THEN currentOwners[i] ELSE currentOwners[i + 1]]

\* changes.filter((c) => c.type === "remove") and (c) => c.type === "add"
removalsOf(changes) == SelectSeq(changes, LAMBDA c : c.type = "remove")
additionsOf(changes) == SelectSeq(changes, LAMBDA c : c.type = "add")

\* the mutant of useSwapOwner: the swap branch is never taken
useSwapOwner_Never(removals, additions) == FALSE

\* removals.length === 1 && additions.length === 1
useSwapOwner(removals, additions) == Len(removals) = 1 /\ Len(additions) = 1

\* the outcome of an encoding branch: the error thrown ("" = none) and the
\* calls pushed
Encoded(error, calls) == [error |-> error, calls |-> calls]

\* the swap branch: one swapOwner(prevOwner, removal, addition)
swapOwnerCalls(currentOwners, removal, addition) ==
  LET ownerIndex == findOwnerIndex(currentOwners, removal.address)
  IN IF ownerIndex = 0
     THEN Encoded("Owner not found", <<>>)
     ELSE Encoded("", <<OwnerCall("swapOwner", prevOwnerOf(currentOwners, ownerIndex),
                                  removal.address, addition.address, 0)>>)

\* the removal loop: one removeOwner(prevOwner, removal, safeInfo.threshold)
\* per removal, each against the local list as the earlier removals left it
RECURSIVE removeOwnerCalls(_, _, _)
removeOwnerCalls(currentOwners, removals, threshold) ==
  IF removals = <<>>
  THEN Encoded("", <<>>)
  ELSE LET removal == Head(removals)
           ownerIndex == findOwnerIndex(currentOwners, removal.address)
       IN IF ownerIndex = 0
          THEN Encoded("Owner not found", <<>>)
          ELSE LET rest == removeOwnerCalls(filterOwner(currentOwners, ownerIndex),
                                            Tail(removals), threshold)
               IN Encoded(rest.error,
                          <<OwnerCall("removeOwner", prevOwnerOf(currentOwners, ownerIndex),
                                      removal.address, "", threshold)>> \o rest.calls)

\* the addition loop: one addOwnerWithThreshold(addition, safeInfo.threshold) each
addOwnerCalls(additions, threshold) ==
  [i \in 1..Len(additions) |->
     OwnerCall("addOwnerWithThreshold", "", additions[i].address, "", threshold)]

\* the mutant of thresholdCalls: a changeThreshold call whatever the threshold
thresholdCalls_Always(threshold, info) ==
  <<OwnerCall("changeThreshold", "", "", "", threshold)>>

\* if (newThreshold !== safeInfo.threshold) push changeThreshold(newThreshold)
thresholdCalls(threshold, info) ==
  IF threshold # info.threshold
  THEN <<OwnerCall("changeThreshold", "", "", "", threshold)>>
  ELSE <<>>

\* the transactions array of createBatchedOwnerManagementTransaction, or the
\* error thrown while it is filled
batchedCalls(info, changes, threshold) ==
  LET removals == removalsOf(changes)
      additions == additionsOf(changes)
      currentOwners == info.owners
      ownerCalls ==
        IF useSwapOwner(removals, additions)
        THEN swapOwnerCalls(currentOwners, removals[1], additions[1])
        ELSE LET removed == removeOwnerCalls(currentOwners, removals, info.threshold)
             IN IF removed.error # "" THEN removed
                ELSE Encoded("", removed.calls \o addOwnerCalls(additions, info.threshold))
  IN IF ownerCalls.error # "" THEN ownerCalls
     ELSE Encoded("", ownerCalls.calls \o thresholdCalls(threshold, info))

\* buildSafeTransaction(transactions) without a nonce: null without a kit
\* or when kit.createTransaction throws (it does for an empty array);
\* otherwise the transaction takes the nonce of the contract and is saved
\* under the connected chain
buildSafeTransactionOf(st, hasKit, transactions, onChainNonce) ==
  IF ~hasKit \/ transactions = <<>>
  THEN [st |-> st, safeTx |-> <<>>]
  ELSE LET safeTxObj == EthSafeTransaction(TxData("0", transactions, NumNonce(onChainNonce)))
       IN [st |-> saveTransaction(st, SafeAddress, safeTxObj, ChainId),
           safeTx |-> <<safeTxObj>>]

\* what a builder leaves behind: the store, "null" (no safeInfo), "throws"
\* with the error, or "ok" with the calls of the transaction built
BuilderResult(st, status, error, calls) ==
  [st |-> st, status |-> status, error |-> error, calls |-> calls]

\* encode, build, save: the tail every builder shares
buildEncoded(st, hasKit, onChainNonce, encoded) ==
  IF encoded.error # ""
  THEN BuilderResult(st, "throws", encoded.error, <<>>)
  ELSE LET built == buildSafeTransactionOf(st, hasKit, encoded.calls, onChainNonce)
       IN IF built.safeTx = <<>>
          THEN BuilderResult(st, "throws", "Failed to build transaction", <<>>)
          ELSE BuilderResult(built.st, "ok", "", encoded.calls)

createBatchedOwnerManagementTransaction(st, info, hasKit, onChainNonce, changes, threshold) ==
  IF info = <<>> THEN BuilderResult(st, "null", "", <<>>)
  ELSE buildEncoded(st, hasKit, onChainNonce, batchedCalls(info[1], changes, threshold))

createAddOwnerTransaction(st, info, hasKit, onChainNonce, newOwner, threshold) ==
  IF info = <<>> THEN BuilderResult(st, "null", "", <<>>)
  ELSE buildEncoded(st, hasKit, onChainNonce,
         Encoded("", <<OwnerCall("addOwnerWithThreshold", "", newOwner, "", threshold)>>))

createRemoveOwnerTransaction(st, info, hasKit, onChainNonce, ownerToRemove, threshold) ==
  IF info = <<>> THEN BuilderResult(st, "null", "", <<>>)
  ELSE LET owners == info[1].owners
           ownerIndex == findOwnerIndex(owners, ownerToRemove)
       IN buildEncoded(st, hasKit, onChainNonce,
            IF ownerIndex = 0 THEN Encoded("Owner not found", <<>>)
            ELSE Encoded("", <<OwnerCall("removeOwner", prevOwnerOf(owners, ownerIndex),
                                         ownerToRemove, "", threshold)>>))

createChangeThresholdTransaction(st, info, hasKit, onChainNonce, threshold) ==
  IF info = <<>> THEN BuilderResult(st, "null", "", <<>>)
  ELSE buildEncoded(st, hasKit, onChainNonce,
         Encoded("", <<OwnerCall("changeThreshold", "", "", "", threshold)>>))

---------------------------------------------------------------------------
(* The Safe contract: OwnerManager *)

\* the contract compares addresses as numbers, whatever their spelling
SameAddress(a, b) == toLowerCase(a) = toLowerCase(b)
IsOwnerOf(owners, owner) == \E i \in 1..Len(owners) : SameAddress(owners[i], owner)

\* the owner the linked list holds right before owner, the sentinel for
\* the first one, "" when owner is not in the list
PredecessorOf(owners, owner) ==
  IF ~IsOwnerOf(owners, owner) THEN ""
  ELSE IF SameAddress(owners[1], owner) THEN SENTINEL_OWNERS
  ELSE owners[CHOOSE i \in 1..(Len(owners) - 1) : SameAddress(owners[i + 1], owner)]

\* getOwners() after the call has run: addOwnerWithThreshold links the
\* owner right after the sentinel, removeOwner unlinks it, swapOwner puts
\* the new owner in the place of the old one
OwnersAfter(owners, call) ==
  CASE call.functionName = "addOwnerWithThreshold" -> <<call.owner>> \o owners
    [] call.functionName = "removeOwner" ->
         SelectSeq(owners, LAMBDA o : ~SameAddress(o, call.owner))
    [] call.functionName = "swapOwner" ->
         [i \in 1..Len(owners) |->
            IF SameAddress(owners[i], call.owner) THEN call.newOwner ELSE owners[i]]
    [] OTHER -> owners

\* the require statements of the call on the owner list
OwnerCheck(owners, call) ==
  CASE call.functionName = "addOwnerWithThreshold" -> ~IsOwnerOf(owners, call.owner)
    [] call.functionName = "removeOwner" ->
         /\ IsOwnerOf(owners, call.owner)
         /\ PredecessorOf(owners, call.owner) = call.prevOwner
    [] call.functionName = "swapOwner" ->
         /\ ~IsOwnerOf(owners, call.newOwner)
         /\ IsOwnerOf(owners, call.owner)
         /\ PredecessorOf(owners, call.owner) = call.prevOwner
    [] OTHER -> TRUE

\* the require statements of the call on the threshold: removeOwner needs
\* ownerCount - 1 >= _threshold, and a threshold that is set must be in
\* 1..ownerCount of the list the call leaves
ThresholdCheck(owners, call) ==
  LET ownerCount == Len(OwnersAfter(owners, call))
  IN CASE call.functionName = "swapOwner" -> TRUE
       [] OTHER -> call.threshold >= 1 /\ call.threshold <= ownerCount

\* the calls of a batch executed in order on the contract: the state they
\* leave and the index of the call that reverted (0 = none); a revert
\* undoes the whole batch
RECURSIVE ExecuteCalls(_, _, _)
ExecuteCalls(owners, calls, k) ==
  IF k > Len(calls) THEN [owners |-> owners, reverted |-> 0]
  ELSE IF OwnerCheck(owners, calls[k]) /\ ThresholdCheck(owners, calls[k])
       THEN ExecuteCalls(OwnersAfter(owners, calls[k]), calls, k + 1)
       ELSE [owners |-> owners, reverted |-> k]

\* the owner list in front of call k of a batch
RECURSIVE OwnersBefore(_, _, _)
OwnersBefore(owners, calls, k) ==
  IF k <= 1 THEN owners
  ELSE OwnersAfter(OwnersBefore(owners, calls, k - 1), calls[k - 1])

---------------------------------------------------------------------------
(* ManageOwnersModal *)

\* the state of the dialog
ModalState(toRemove, toAdd, threshold) ==
  [ownersToRemove |-> toRemove, ownersToAdd |-> toAdd, newThreshold |-> threshold]

\* isAddress(newOwnerAddress) of viem on the strings of the model
NewOwnerInputs == {"0xD", "0xd", "0xE", "0xa", "bad"}
isAddress(s) == s # "bad"

InSeq(seq, x) == \E i \in 1..Len(seq) : seq[i] = x
LowerInSeq(seq, lower) == \E i \in 1..Len(seq) : toLowerCase(seq[i]) = lower

\* owners.length - ownersToRemove.size + ownersToAdd.length
finalOwnerCount(owners, m) == Len(owners) - Len(m.ownersToRemove) + Len(m.ownersToAdd)

hasChanges(m, threshold) ==
  Len(m.ownersToRemove) > 0 \/ Len(m.ownersToAdd) > 0 \/ m.newThreshold # threshold

\* handleAddOwnerToQueue without the look into the add queue
handleAddOwnerToQueue_NoQueueCheck(m, owners, newOwnerAddress) ==
  LET normalizedAddress == toLowerCase(newOwnerAddress)
  IN IF \/ ~isAddress(newOwnerAddress)
        \/ LowerInSeq(owners, normalizedAddress)
        \/ InSeq(m.ownersToRemove, normalizedAddress)
     THEN m
     ELSE [m EXCEPT !.ownersToAdd = Append(@, newOwnerAddress)]

handleAddOwnerToQueue(m, owners, newOwnerAddress) ==
  LET normalizedAddress == toLowerCase(newOwnerAddress)
  IN IF \/ ~isAddress(newOwnerAddress)
        \/ LowerInSeq(owners, normalizedAddress)
        \/ LowerInSeq(m.ownersToAdd, normalizedAddress)
        \/ InSeq(m.ownersToRemove, normalizedAddress)
     THEN m
     ELSE [m EXCEPT !.ownersToAdd = Append(@, newOwnerAddress)]

\* the Set keeps insertion order: delete takes the owner out, add appends it
handleToggleRemoveOwner(m, owner) ==
  LET normalizedOwner == toLowerCase(owner)
  IN IF InSeq(m.ownersToRemove, normalizedOwner)
     THEN [m EXCEPT !.ownersToRemove = SelectSeq(@, LAMBDA o : o # normalizedOwner)]
     ELSE [m EXCEPT !.ownersToRemove = Append(@, normalizedOwner)]

handleRemoveFromAddQueue(m, index) ==
  [m EXCEPT !.ownersToAdd =
     [i \in 1..(Len(@) - 1) |-> IF i < index THEN @[i] ELSE @[i + 1]]]

\* setNewThreshold(parseInt(e.target.value) || 1)
setNewThreshold(m, value) == [m EXCEPT !.newThreshold = IF value = 0 THEN 1 ELSE value]

\* the changes array: the removals in the order of the Set, then the additions
changesOf(m) ==
  [i \in 1..Len(m.ownersToRemove) |-> OwnerChange("remove", m.ownersToRemove[i])]
  \o [i \in 1..Len(m.ownersToAdd) |-> OwnerChange("add", m.ownersToAdd[i])]

\* handleCreateTransaction with onBatchUpdate = handleOwnerManagementBatch:
\* "rejected" when the threshold is out of 1..finalOwnerCount or nothing
\* changes, otherwise what createBatchedOwnerManagementTransaction leaves
handleCreateTransaction(st, info, hasKit, onChainNonce, m) ==
  IF m.newThreshold < 1 \/ m.newThreshold > finalOwnerCount(info[1].owners, m)
  THEN BuilderResult(st, "rejected", "Threshold must be between 1 and final owner count", <<>>)
  ELSE IF ~hasChanges(m, info[1].threshold)
  THEN BuilderResult(st, "rejected", "No changes to apply", <<>>)
  ELSE createBatchedOwnerManagementTransaction(st, info, hasKit, onChainNonce,
                                               changesOf(m), m.newThreshold)

---------------------------------------------------------------------------
(* Owner management as steps *)

\* the addresses the owner lists are made of
OwnerPool == {"0xA", "0xB", "0xC"}

\* owner lists without repetition, up to MaxOwners long
OwnerLists ==
  {o \in UNION {[1..n -> OwnerPool] : n \in 1..MaxOwners} :
     \A i, j \in 1..Len(o) : i # j => o[i] # o[j]}

\* what fetchSafeInfo reads for a deployed Safe: owners, threshold, nonce
SafeInfos ==
  {[owners |-> o, threshold |-> t, nonce |-> 0] : o \in OwnerLists, t \in 1..MaxOwners}

\* the values typed into the threshold field and passed to the builders
ThresholdInputs == (-1)..(MaxOwners + 1)

\* the changes a caller passes: removals as the dialog spells them (lower
\* case) or checksummed, additions of new addresses
ChangeItems ==
  {OwnerChange("remove", "0xa"), OwnerChange("remove", "0xB"), OwnerChange("remove", "0xc"),
   OwnerChange("add", "0xD"), OwnerChange("add", "0xE")}
ChangeSets == UNION {[1..n -> ChangeItems] : n \in 0..MaxChanges}

\* a transaction built earlier and still queued, with the nonce after the
\* one the contract holds
QueuedEarlier ==
  EthSafeTransaction(TxData("0", <<OwnerCall("changeThreshold", "", "", "", 1)>>, NumNonce(1)))

\* the dashboard of a deployed Safe whose data is loaded
InitOwners ==
  /\ DashboardMounted
  /\ HandlerMounted
  /\ RecordsIntact
  /\ HashesUnset
  /\ LateUnset
  /\ undeployedSafe = <<>>
  /\ kit = TRUE
  /\ \E info \in SafeInfos :
       /\ info.threshold <= Len(info.owners)
       /\ safeInfo = <<info>>
       /\ newThreshold = info.threshold
       /\ isOwner = InSeq(info.owners, connectedAddress)
  /\ LET st == saveTransaction([mem |-> [k \in Keys |-> <<>>], ls |-> [k \in Keys |-> <<>>]],
                                SafeAddress, QueuedEarlier, ChainId)
     IN currentTxMap = st.mem /\ localStorageTx = st.ls
  /\ safeTx = <<>>
  /\ showModal = FALSE
  /\ broadcastError = FALSE
  /\ searchParams = <<>>
  /\ executed = <<>>
  /\ chainNonce = 0
  /\ currentMsgMap = [k \in Keys |-> <<>>]
  /\ localStorageMsg = [k \in Keys |-> <<>>]
  /\ pendingRequest = <<>>
  /\ signedMessage = <<>>
  /\ messageHash = ""
  /\ approved = <<>>

Modal == ModalState(ownersToRemove, ownersToAdd, newThreshold)

SetModal(m) ==
  /\ ownersToRemove' = m.ownersToRemove
  /\ ownersToAdd' = m.ownersToAdd
  /\ newThreshold' = m.newThreshold

\* the arguments and the outcome of a builder call
OwnerTxResult(builder, changes, threshold, result) ==
  [builder |-> builder, changes |-> changes, newThreshold |-> threshold,
   status |-> result.status, error |-> result.error, calls |-> result.calls]

NotOwnerStep ==
  <<safeVars, txPageVars, chainVars, msgStoreVars, wcVars, deployVars, requestVars,
    recordVars, hashVars, lateVars>>

\* the "Manage Owners" button: the dialog opens and resets its state
OpenManageOwners ==
  /\ safeInfo # <<>>
  /\ ~manageOwnersModalOpen
  /\ ownerTxResult = <<>>
  /\ manageOwnersModalOpen' = TRUE
  /\ SetModal(ModalState(<<>>, <<>>, safeInfo[1].threshold))
  /\ UNCHANGED <<ownerTxResult, txStoreVars, NotOwnerStep>>

\* onClose
CloseManageOwners ==
  /\ manageOwnersModalOpen
  /\ manageOwnersModalOpen' = FALSE
  /\ UNCHANGED <<ownersToRemove, ownersToAdd, newThreshold, ownerTxResult, txStoreVars,
                 NotOwnerStep>>

HandleToggleRemoveOwner ==
  /\ manageOwnersModalOpen
  /\ ownerTxResult = <<>>
  /\ \E i \in 1..Len(safeInfo[1].owners) :
       SetModal(handleToggleRemoveOwner(Modal, safeInfo[1].owners[i]))
  /\ UNCHANGED <<manageOwnersModalOpen, ownerTxResult, txStoreVars, NotOwnerStep>>

HandleAddOwnerToQueue ==
  /\ manageOwnersModalOpen
  /\ ownerTxResult = <<>>
  /\ \E newOwnerAddress \in NewOwnerInputs :
       SetModal(handleAddOwnerToQueue(Modal, safeInfo[1].owners, newOwnerAddress))
  /\ UNCHANGED <<manageOwnersModalOpen, ownerTxResult, txStoreVars, NotOwnerStep>>

HandleRemoveFromAddQueue ==
  /\ manageOwnersModalOpen
  /\ ownerTxResult = <<>>
  /\ \E index \in 1..Len(ownersToAdd) : SetModal(handleRemoveFromAddQueue(Modal, index))
  /\ UNCHANGED <<manageOwnersModalOpen, ownerTxResult, txStoreVars, NotOwnerStep>>

SetNewThreshold ==
  /\ manageOwnersModalOpen
  /\ ownerTxResult = <<>>
  /\ \E value \in ThresholdInputs : SetModal(setNewThreshold(Modal, value))
  /\ UNCHANGED <<manageOwnersModalOpen, ownerTxResult, txStoreVars, NotOwnerStep>>

\* "Create Batched Transaction", disabled without changes; the dialog
\* closes when the transaction was created
HandleCreateTransaction ==
  /\ manageOwnersModalOpen
  /\ ownerTxResult = <<>>
  /\ hasChanges(Modal, safeInfo[1].threshold)
  /\ LET result == handleCreateTransaction(TxStore, safeInfo, kit, chainNonce, Modal)
     IN /\ SetTxStore(result.st)
        /\ ownerTxResult' = <<OwnerTxResult("dialog", changesOf(Modal), newThreshold, result)>>
        /\ manageOwnersModalOpen' = (result.status # "ok")
  /\ UNCHANGED <<ownersToRemove, ownersToAdd, newThreshold, NotOwnerStep>>

\* a builder of the hook called with arguments of its caller's choice
BuilderCall(builder, changes, threshold, result) ==
  /\ ~manageOwnersModalOpen
  /\ ownerTxResult = <<>>
  /\ SetTxStore(result.st)
  /\ ownerTxResult' = <<OwnerTxResult(builder, changes, threshold, result)>>
  /\ UNCHANGED <<manageOwnersModalOpen, ownersToRemove, ownersToAdd, newThreshold,
                 NotOwnerStep>>

CreateBatchedOwnerManagementTransaction ==
  \E changes \in ChangeSets, threshold \in ThresholdInputs :
    BuilderCall("batch", changes, threshold,
      createBatchedOwnerManagementTransaction(TxStore, safeInfo, kit, chainNonce,
                                              changes, threshold))

CreateAddOwnerTransaction ==
  \E change \in {c \in ChangeItems : c.type = "add"}, threshold \in ThresholdInputs :
    BuilderCall("add", <<change>>, threshold,
      createAddOwnerTransaction(TxStore, safeInfo, kit, chainNonce, change.address, threshold))

CreateRemoveOwnerTransaction ==
  \E change \in {c \in ChangeItems : c.type = "remove"}, threshold \in ThresholdInputs :
    BuilderCall("remove", <<change>>, threshold,
      createRemoveOwnerTransaction(TxStore, safeInfo, kit, chainNonce, change.address,
                                   threshold))

CreateChangeThresholdTransaction ==
  \E threshold \in ThresholdInputs :
    BuilderCall("threshold", <<>>, threshold,
      createChangeThresholdTransaction(TxStore, safeInfo, kit, chainNonce, threshold))

NextOwners ==
  \/ OpenManageOwners
  \/ CloseManageOwners
  \/ HandleToggleRemoveOwner
  \/ HandleAddOwnerToQueue
  \/ HandleRemoveFromAddQueue
  \/ SetNewThreshold
  \/ HandleCreateTransaction

\* the dashboard with the owner dialog
SpecOwners == InitOwners /\ [][NextOwners]_vars

NextBuilders ==
  \/ CreateBatchedOwnerManagementTransaction
  \/ CreateAddOwnerTransaction
  \/ CreateRemoveOwnerTransaction
  \/ CreateChangeThresholdTransaction

\* the builders of the hook under the arguments of any caller
SpecBuilders == InitOwners /\ [][NextBuilders]_vars

---------------------------------------------------------------------------
(* Properties of the owner-management builders *)

\* the last builder call was the batch encoder, by the dialog or directly
BatchCalled == ownerTxResult # <<>> /\ ownerTxResult[1].builder \in {"batch", "dialog"}

OwnerFunctions == {"swapOwner", "removeOwner", "addOwnerWithThreshold"}

\* C11: a batch of exactly one removal (of an owner) and one addition is
\* built with exactly one swapOwner(prevOwner, oldOwner, newOwner) call and
\* no removeOwner or addOwnerWithThreshold call, prevOwner being the owner
\* in front of oldOwner in the owner list or the sentinel when oldOwner is
\* first; owners [A,B,C], remove B, add D, threshold unchanged gives the
\* single call swapOwner(A, B, D).
C11_SingleSwap ==
  /\ BatchCalled =>
       LET r == ownerTxResult[1]
           info == safeInfo[1]
           removals == removalsOf(r.changes)
           additions == additionsOf(r.changes)
       IN (Len(removals) = 1 /\ Len(additions) = 1
             /\ IsOwnerOf(info.owners, removals[1].address)) =>
            /\ r.status = "ok"
            /\ r.calls[1] = OwnerCall("swapOwner",
                                       PredecessorOf(info.owners, removals[1].address),
                                       removals[1].address, additions[1].address, 0)
            /\ \A k \in 2..Len(r.calls) : r.calls[k].functionName \notin OwnerFunctions
  /\ batchedCalls([owners |-> <<"0xA", "0xB", "0xC">>, threshold |-> 2, nonce |-> 0],
                  <<OwnerChange("remove", "0xB"), OwnerChange("add", "0xD")>>, 2)
       = Encoded("", <<OwnerCall("swapOwner", "0xA", "0xB", "0xD", 0)>>)

\* a swap was built from an addition followed by a removal, of an owner
\* that is not first in the list, together with a threshold change
C11_Witness ==
  /\ BatchCalled
  /\ ownerTxResult[1].status = "ok"
  /\ Len(ownerTxResult[1].changes) = 2
  /\ ownerTxResult[1].changes[1].type = "add"
  /\ ownerTxResult[1].changes[2].type = "remove"
  /\ Len(ownerTxResult[1].calls) = 2
  /\ ownerTxResult[1].calls[1].functionName = "swapOwner"
  /\ ownerTxResult[1].calls[1].prevOwner # SENTINEL_OWNERS

\* C12: in every removeOwner call of a transaction built, prevOwner is the
\* sentinel when the removed owner is first in the owner list as the
\* preceding calls of the batch leave it on the contract, and the owner
\* right before it in that list otherwise, so that the call passes the
\* linked-list check of the contract.
C12_PrevOwner ==
  (ownerTxResult # <<>> /\ ownerTxResult[1].status = "ok") =>
    LET calls == ownerTxResult[1].calls
        owners == safeInfo[1].owners
    IN \A k \in 1..Len(calls) :
         calls[k].functionName = "removeOwner" =>
           LET before == OwnersBefore(owners, calls, k)
           IN /\ IsOwnerOf(before, calls[k].owner)
              /\ calls[k].prevOwner = PredecessorOf(before, calls[k].owner)
              /\ OwnerCheck(before, calls[k])

\* a batch removed two owners and the second removal has another
\* predecessor than it had in the owner list the batch started from
C12_Witness ==
  /\ BatchCalled
  /\ ownerTxResult[1].status = "ok"
  /\ Len(ownerTxResult[1].calls) >= 2
  /\ ownerTxResult[1].calls[2].functionName = "removeOwner"
  /\ ownerTxResult[1].calls[2].prevOwner
       # PredecessorOf(safeInfo[1].owners, ownerTxResult[1].calls[2].owner)

\* C13 (as claimed): in a batch the dialog built, i.e. with a new
\* threshold in 1..final owner count, the threshold passed to each
\* removeOwner and addOwnerWithThreshold call is at most the number of
\* owners the call leaves, so that no call fails the threshold check.
C13_IntermediateThreshold ==
  (ownerTxResult # <<>> /\ ownerTxResult[1].builder = "dialog"
     /\ ownerTxResult[1].status = "ok") =>
    LET calls == ownerTxResult[1].calls
        owners == safeInfo[1].owners
    IN \A k \in 1..Len(calls) :
         calls[k].functionName \in {"removeOwner", "addOwnerWithThreshold"} =>
           /\ calls[k].threshold <= Len(OwnersAfter(OwnersBefore(owners, calls, k), calls[k]))
           /\ ThresholdCheck(OwnersBefore(owners, calls, k), calls[k])

Rank(call) ==
  CASE call.functionName \in {"swapOwner", "removeOwner"} -> 1
    [] call.functionName = "addOwnerWithThreshold" -> 2
    [] OTHER -> 3

\* C14: the calls of a batch come as removals (or the single swap), then
\* additions, then the threshold change; there is one changeThreshold call,
\* with the new threshold, exactly when the new threshold differs from the
\* current one, none otherwise, and it is the last call, whatever the
\* order of the changes passed.
C14_ThresholdLast ==
  (BatchCalled /\ ownerTxResult[1].status = "ok") =>
    LET r == ownerTxResult[1]
        calls == r.calls
        changing == {k \in 1..Len(calls) : calls[k].functionName = "changeThreshold"}
    IN /\ \A i, j \in 1..Len(calls) : i < j => Rank(calls[i]) <= Rank(calls[j])
       /\ Cardinality({k \in 1..Len(calls) : calls[k].functionName = "swapOwner"}) <= 1
       /\ changing = IF r.newThreshold # safeInfo[1].threshold THEN {Len(calls)} ELSE {}
       /\ \A k \in changing : calls[k].threshold = r.newThreshold

\* an addition was passed before two removals and the threshold changes
C14_Witness ==
  /\ BatchCalled
  /\ ownerTxResult[1].status = "ok"
  /\ Len(ownerTxResult[1].changes) = 3
  /\ ownerTxResult[1].changes[1].type = "add"
  /\ ownerTxResult[1].changes[2].type = "remove"
  /\ ownerTxResult[1].changes[3].type = "remove"
  /\ Len(ownerTxResult[1].calls) = 4
  /\ ownerTxResult[1].calls[4].functionName = "changeThreshold"

\* the change set of the call removes an address that is not an owner
RemovesStranger(r, owners) ==
  /\ r.builder \in {"batch", "dialog", "remove"}
  /\ \E i \in 1..Len(r.changes) :
       r.changes[i].type = "remove" /\ ~IsOwnerOf(owners, r.changes[i].address)

\* C15: a builder call whose change set removes an address that is not in
\* the owner list (compared case-insensitively) throws the owner-not-found
\* error, and the queue and its persisted record stay as they were.
C15_OwnerNotFound ==
  [][(ownerTxResult' # <<>> /\ ownerTxResult' # ownerTxResult
        /\ RemovesStranger(ownerTxResult'[1], safeInfo[1].owners)) =>
       /\ ownerTxResult'[1].status = "throws"
       /\ ownerTxResult'[1].error = "Owner not found"
       /\ ownerTxResult'[1].calls = <<>>
       /\ UNCHANGED txStoreVars]_vars

\* a batch that removes an owner and then an address that is not an owner
\* has thrown, with a transaction in the queue
C15_Witness ==
  /\ ownerTxResult # <<>>
  /\ ownerTxResult[1].builder = "batch"
  /\ Len(ownerTxResult[1].changes) >= 2
  /\ ownerTxResult[1].changes[1].type = "remove"
  /\ IsOwnerOf(safeInfo[1].owners, ownerTxResult[1].changes[1].address)
  /\ RemovesStranger(ownerTxResult[1], safeInfo[1].owners)
  /\ ownerTxResult[1].status = "throws"
  /\ currentTxMap[Key(SafeAddress, ChainId)] # <<>>

\* current owners minus removals plus additions
FinalOwnerCount(owners, changes) ==
  Len(owners) - Len(removalsOf(changes)) + Len(additionsOf(changes))

\* C16 (as claimed): a builder call with a new threshold below 1 or above
\* the final owner count is rejected: no call is encoded and the queue and
\* its persisted record stay as they were, for the batch encoder and for
\* the single add, remove and change-threshold builders.
C16_ThresholdValidated ==
  [][(ownerTxResult' # <<>> /\ ownerTxResult' # ownerTxResult
        /\ (\/ ownerTxResult'[1].newThreshold < 1
            \/ ownerTxResult'[1].newThreshold
                 > FinalOwnerCount(safeInfo[1].owners, ownerTxResult'[1].changes))) =>
       /\ ownerTxResult'[1].status \in {"throws", "rejected"}
       /\ ownerTxResult'[1].calls = <<>>
       /\ UNCHANGED txStoreVars]_vars

---------------------------------------------------------------------------
(* useSafe.deployUndeployedSafe *)

\* the attempts of one run of the model
MaxAttempts == 3

\* !undeployedSafe || !connector || !signer || !chainId
deployGuard(undeployed, connected) == undeployed = <<>> \/ ~connected

\* what the guard returns: one step, txCreated, in error
MissingConfigSteps ==
  <<[DeployStep("txCreated", "error") EXCEPT
       !.error = "Missing Safe config, wallet connector, signer, or chainId."]>>

\* the mutant of templateAfter: the steps array shares its step objects
\* with the template
templateAfter_Shared(template, s) == s

\* the template after the attempt wrote its steps array s: the steps are
\* copies made by DEFAULT_DEPLOY_STEPS.map((step) => ({...step})), so a
\* write to them leaves the template as it is
templateAfter(template, s) == template

\* DEFAULT_DEPLOY_STEPS.map((step) => ({ ...step }))
freshSteps(template) == [i \in 1..Len(template) |-> template[i]]

\* steps[0].status = "running"
started(s) == [s EXCEPT ![1].status = "running"]

\* the mutant of stepFailed: the error is recorded, the status is not
stepFailed_NoStatus(s, i, error) == [s EXCEPT ![i].error = error]

\* steps[i].status = "error"; steps[i].error = message
stepFailed(s, i, error) == [s EXCEPT ![i].status = "error", ![i].error = error]

\* the deployment transaction is built: step 1 success, step 2 running
built(s) == [s EXCEPT ![1].status = "success", ![2].status = "running"]

\* the mutant of sent: the first step is run again
sent_Rebuild(s, hash) ==
  [s EXCEPT ![1].status = "running", ![2].status = "success", ![2].txHash = hash,
            ![3].status = "running"]

\* the transaction is sent: step 2 success with the hash, step 3 running
sent(s, hash) ==
  [s EXCEPT ![2].status = "success", ![2].txHash = hash, ![3].status = "running"]

\* the receipt is there: step 3 success with the hash, step 4 running
confirmed(s, hash) ==
  [s EXCEPT ![3].status = "success", ![3].txHash = hash, ![4].status = "running"]

\* the SafeWalletData of the account: the undeployed record, the addresses
\* recorded as deployed, the callbacks invoked
Wallet(undeployed, deployed, invoked) ==
  [undeployedSafe |-> undeployed, deployedSafes |-> deployed, callbacks |-> invoked]

\* kit.getAddress() of a kit initialised with the prediction config: the
\* address is a function of owners, threshold and salt nonce
PredictAddress(config) == <<"safe", config.owners, config.threshold, config.saltNonce>>

\* addSafe(chainId, safeAddress, safeName), then removeSafe(chainId, safeAddress, false)
migrate(wallet, address) ==
  Wallet(<<>>, wallet.deployedSafes \cup {address},
         wallet.callbacks \o <<"addSafe", "removeSafe">>)

\* the outcomes of the awaits of the last try block: the Safe is deployed,
\* it is not, or a call throws
VerifyOutcomes == {"deployed", "notDeployed", "throws"}
ErrorMessage(outcome) ==
  IF outcome = "notDeployed" THEN "Safe deployment not detected" ELSE "request failed"

\* the mutant of verifyDeployed: the record is migrated before the
\* deployment is verified
verifyDeployed_MigrateFirst(s, hash, outcome, wallet, address) ==
  IF outcome = "deployed"
  THEN [steps |-> [s EXCEPT ![4].status = "success", ![4].txHash = hash],
        wallet |-> migrate(wallet, address)]
  ELSE [steps |-> [stepFailed(s, 4, ErrorMessage(outcome)) EXCEPT ![4].txHash = hash],
        wallet |-> migrate(wallet, address)]

\* the last try block: step 4 success with the hash and the two callbacks
\* when the Safe is deployed, step 4 in error with the hash otherwise
verifyDeployed(s, hash, outcome, wallet, address) ==
  IF outcome = "deployed"
  THEN [steps |-> [s EXCEPT ![4].status = "success", ![4].txHash = hash],
        wallet |-> migrate(wallet, address)]
  ELSE [steps |-> [stepFailed(s, 4, ErrorMessage(outcome)) EXCEPT ![4].txHash = hash],
        wallet |-> wallet]

---------------------------------------------------------------------------
(* SafeDashboardClient: the deployment of an undeployed Safe *)

\* steps.find((s) => s.txHash)?.txHash, "" when no step has one
FirstTxHash(s) ==
  IF \E i \in 1..Len(s) : s[i].txHash # ""
  THEN s[CHOOSE i \in 1..Len(s) :
           s[i].txHash # "" /\ \A j \in 1..(i - 1) : s[j].txHash = ""].txHash
  ELSE ""

\* steps.find((s) => s.status === "error"): null or `Deployment error: ${error}`
ErrorOf(s) ==
  IF \E i \in 1..Len(s) : s[i].status = "error"
  THEN <<"Deployment error",
         s[CHOOSE i \in 1..Len(s) :
             s[i].status = "error" /\ \A j \in 1..(i - 1) : s[j].status # "error"].error>>
  ELSE <<>>

\* handleDeployUndeployedSafe after deployUndeployedSafe returned s:
\* setDeploySteps([...steps]), setDeployTxHash when a step has a hash,
\* setDeployError when a step is in error
AttemptReturns(s) ==
  /\ deploySteps' = s
  /\ deployTxHash' = FirstTxHash(s)
  /\ deployError' = ErrorOf(s)
  /\ deployPc' = "idle"

\* the undeployed configurations of the model: owners, threshold, salt nonce
UndeployedConfigs ==
  {[owners |-> o, threshold |-> t, saltNonce |-> n] :
     o \in {<<"0xA">>, <<"0xA", "0xB">>}, t \in 1..2, n \in {"0", "7"}}

\* the dashboard of an account that has an undeployed record or none
InitDeploy ==
  /\ DashboardMounted
  /\ HandlerMounted
  /\ RecordsIntact
  /\ HashesUnset
  /\ LateUnset
  /\ \E config \in UndeployedConfigs :
       /\ config.threshold <= Len(config.owners)
       /\ undeployedSafe \in {<<>>, <<config>>}
  /\ newThreshold = 0
  /\ currentTxMap = [k \in Keys |-> <<>>]
  /\ localStorageTx = [k \in Keys |-> <<>>]
  /\ kit = FALSE
  /\ safeInfo = <<>>
  /\ isOwner = FALSE
  /\ safeTx = <<>>
  /\ showModal = FALSE
  /\ broadcastError = FALSE
  /\ searchParams = <<>>
  /\ executed = <<>>
  /\ chainNonce = 0
  /\ currentMsgMap = [k \in Keys |-> <<>>]
  /\ localStorageMsg = [k \in Keys |-> <<>>]
  /\ pendingRequest = <<>>
  /\ signedMessage = <<>>
  /\ messageHash = ""
  /\ approved = <<>>

NotDeployStep ==
  <<txStoreVars, safeVars, txPageVars, chainVars, msgStoreVars, wcVars, ownerVars,
    requestVars, recordVars, hashVars, lateVars>>

\* the attempt writes its steps array and publishes a copy
SetSteps(s) ==
  /\ steps' = s
  /\ deployTemplate' = templateAfter(deployTemplate, s)

\* the attempt ends with step i in error
AttemptFails(i, error) ==
  /\ SetSteps(stepFailed(steps, i, error))
  /\ AttemptReturns(stepFailed(steps, i, error))
  /\ UNCHANGED <<undeployedSafe, deployedSafes, sentTxHash, predicted, callbacks>>

\* handleDeployUndeployedSafe up to the first await of deployUndeployedSafe:
\* the dashboard state is reset; without a record or a wallet the call
\* returns the one-step error list, otherwise the steps are copied from
\* the template and the first one runs
HandleDeployUndeployedSafe ==
  /\ deployPc = "idle"
  /\ Len(predicted) < MaxAttempts
  /\ \E connected \in BOOLEAN :
       IF deployGuard(undeployedSafe, connected)
       THEN /\ AttemptReturns(MissingConfigSteps)
            /\ UNCHANGED <<steps, deployTemplate, callbacks>>
       ELSE /\ SetSteps(started(freshSteps(deployTemplate)))
            /\ deploySteps' = started(freshSteps(deployTemplate))
            /\ deployTxHash' = ""
            /\ deployError' = <<>>
            /\ deployPc' = "init"
            /\ callbacks' = <<>>
  /\ sentTxHash' = ""
  /\ UNCHANGED <<undeployedSafe, deployedSafes, predicted, NotDeployStep>>

\* getMinimalEIP1193Provider, createPredictionConfig, Safe.init: no
\* provider, an exception (the outer catch), or a kit for the predicted Safe
InitKit ==
  /\ deployPc = "init"
  /\ \E outcome \in {"noProvider", "throws", "ok"} :
       IF outcome = "ok"
       THEN /\ predicted' = Append(predicted, PredictAddress(undeployedSafe[1]))
            /\ deployPc' = "building"
            /\ UNCHANGED <<undeployedSafe, deployedSafes, deploySteps, deployTxHash,
                           deployError, steps, deployTemplate, sentTxHash, callbacks>>
       ELSE AttemptFails(1, IF outcome = "noProvider" THEN "No provider found"
                            ELSE "request failed")
  /\ UNCHANGED NotDeployStep

\* kit.createSafeDeploymentTransaction, getExternalSigner
BuildDeploymentTx ==
  /\ deployPc = "building"
  /\ \E outcome \in {"throws", "ok"} :
       IF outcome = "ok"
       THEN /\ SetSteps(built(steps))
            /\ deploySteps' = built(steps)
            /\ deployPc' = "broadcasting"
            /\ UNCHANGED <<undeployedSafe, deployedSafes, deployTxHash, deployError,
                           sentTxHash, predicted, callbacks>>
       ELSE AttemptFails(1, "request failed")
  /\ UNCHANGED NotDeployStep

\* kitClient.sendTransaction
Broadcast ==
  /\ deployPc = "broadcasting"
  /\ \E outcome \in {"throws", "ok"} :
       IF outcome = "ok"
       THEN /\ sentTxHash' = "0xhash"
            /\ SetSteps(sent(steps, "0xhash"))
            /\ deploySteps' = sent(steps, "0xhash")
            /\ deployPc' = "confirming"
            /\ UNCHANGED <<undeployedSafe, deployedSafes, deployTxHash, deployError,
                           predicted, callbacks>>
       ELSE AttemptFails(2, "request failed")
  /\ UNCHANGED NotDeployStep

\* waitForTransactionReceipt; sendTransaction resolved with the hash of the
\* transaction, which is not empty, so `if (txHash)` is passed
Confirm ==
  /\ deployPc = "confirming"
  /\ \E outcome \in {"throws", "ok"} :
       IF outcome = "ok"
       THEN /\ SetSteps(confirmed(steps, sentTxHash))
            /\ deploySteps' = confirmed(steps, sentTxHash)
            /\ deployPc' = "verifying"
            /\ UNCHANGED <<undeployedSafe, deployedSafes, deployTxHash, deployError,
                           sentTxHash, predicted, callbacks>>
       ELSE AttemptFails(3, "request failed")
  /\ UNCHANGED NotDeployStep

\* kit.getAddress, kit.connect, isSafeDeployed, addSafe, removeSafe, return
VerifyDeployed ==
  /\ deployPc = "verifying"
  /\ \E outcome \in VerifyOutcomes :
       LET done == verifyDeployed(steps, sentTxHash, outcome,
                                  Wallet(undeployedSafe, deployedSafes, callbacks),
                                  PredictAddress(undeployedSafe[1]))
       IN /\ SetSteps(done.steps)
          /\ AttemptReturns(done.steps)
          /\ undeployedSafe' = done.wallet.undeployedSafe
          /\ deployedSafes' = done.wallet.deployedSafes
          /\ callbacks' = done.wallet.callbacks
  /\ UNCHANGED <<sentTxHash, predicted, NotDeployStep>>

\* handleCloseModal between attempts: the steps shown are reset
HandleCloseModal ==
  /\ deployPc = "idle"
  /\ deploySteps' = freshSteps(deployTemplate)
  /\ UNCHANGED <<undeployedSafe, deployedSafes, deployTxHash, deployError, steps,
                 sentTxHash, deployPc, deployTemplate, predicted, callbacks, NotDeployStep>>

NextDeploy ==
  \/ HandleDeployUndeployedSafe
  \/ InitKit
  \/ BuildDeploymentTx
  \/ Broadcast
  \/ Confirm
  \/ VerifyDeployed
  \/ HandleCloseModal

SpecDeploy == InitDeploy /\ [][NextDeploy]_vars

---------------------------------------------------------------------------
(* Properties of the deployment of an undeployed Safe *)

StepIndex == 1..Len(DEFAULT_DEPLOY_STEPS)

\* a step of an attempt that is under way, and the step that ends it
AttemptStarts == deployPc = "idle" /\ deployPc' # "idle"
AttemptRuns == deployPc # "idle"
AttemptReturned == deployPc # "idle" /\ deployPc' = "idle"

Forward(before, after) ==
  \/ before = after
  \/ before = "pending" /\ after = "running"
  \/ before = "running" /\ after \in {"success", "error"}

EndState(s) ==
  \/ \A i \in StepIndex : s[i].status = "success"
  \/ \E k \in StepIndex :
       /\ s[k].status = "error"
       /\ s[k].error # ""
       /\ \A j \in StepIndex : j < k => s[j].status = "success"
       /\ \A j \in StepIndex : j > k => s[j].status = "pending"

C20_FreshAttempt ==
  [][/\ deployTemplate = DEFAULT_DEPLOY_STEPS
     /\ deployTemplate' = DEFAULT_DEPLOY_STEPS
     /\ \A i \in StepIndex : DEFAULT_DEPLOY_STEPS[i].status = "pending"
     /\ AttemptStarts =>
          /\ steps' = [DEFAULT_DEPLOY_STEPS EXCEPT ![1].status = "running"]
          /\ deploySteps' = steps'
          /\ deployTxHash' = ""
          /\ deployError' = <<>>
     /\ AttemptReturned /\ (\E i \in StepIndex : steps'[i].status = "error") =>
          undeployedSafe' = undeployedSafe
     /\ \A i, j \in 1..Len(predicted') : predicted'[i] = predicted'[j]]_vars

C20_Witness ==
  /\ Len(predicted) = 2
  /\ deployPc = "building"
  /\ steps = [DEFAULT_DEPLOY_STEPS EXCEPT ![1].status = "running"]

\* the names of a step list, in order
StepNames(s) == [i \in 1..Len(s) |-> s[i].step]

\* C21: every step list deployUndeployedSafe returns or reports through
\* setDeploySteps has the length and the step names, in order, of the
\* deployment template, also when the attempt is refused for a missing
\* configuration, connector, signer or chain id.
C21_FixedShape ==
  /\ StepNames(deploySteps) = StepNames(DEFAULT_DEPLOY_STEPS)
  /\ steps # <<>> => StepNames(steps) = StepNames(DEFAULT_DEPLOY_STEPS)

---------------------------------------------------------------------------
(* WalletConnect: the life of a session request *)

\* the requests of one run of the model, and the calls of
\* respondSessionRequest that may be unsettled at a time
MaxRequests == 2
MaxInFlight == 2

WcRequest(id, method) == [id |-> id, method |-> method]

\* the methods of the model: a transaction, a signature, a method the
\* handler has no page for, and the one the provider answers itself
RequestMethods ==
  {"eth_sendTransaction", "personal_sign", "eth_accounts", "wallet_getCapabilities"}

Pathnames == {"/", "/safe", "/safe/tx", "/safe/wc-tx", "/safe/wc-sign"}

\* pathname.includes("/wc-tx") || pathname.includes("/wc-sign")
isOnWcPage(path) == path \in {"/safe/wc-tx", "/safe/wc-sign"}

\* useParams().address: the routes under /safe/:address have it
hasSafeAddress(path) == path # "/"

\* the page the handler navigates to for a method, "" when it has none
wcPageOf(method) ==
  IF method = "eth_sendTransaction" THEN "/safe/wc-tx"
  ELSE IF method \in {"eth_signTypedData", "eth_signTypedData_v4", "personal_sign", "eth_sign"}
       THEN "/safe/wc-sign"
       ELSE ""

\* a call of respondSessionRequest: the request it answers, approve or
\* reject, and the code that awaits it
RespondCall(request, kind, by, page) ==
  [request |-> request, kind |-> kind, by |-> by, page |-> page]

\* a terminal response as the dApp receives it
TerminalResponse(id, kind, code) == [id |-> id, kind |-> kind, code |-> code]

\* the state the request handler, the provider and the request page share
RequestState ==
  [pendingRequest |-> pendingRequest, pathname |-> pathname,
   processedRequestIds |-> processedRequestIds,
   isNavigatingToWcPage |-> isNavigatingToWcPage,
   sessionStorageRequest |-> sessionStorageRequest,
   requestFromStorage |-> requestFromStorage, pageParams |-> pageParams,
   isProcessing |-> isProcessing, inFlight |-> inFlight, responses |-> responses]

SetRequestState(h) ==
  /\ pendingRequest' = h.pendingRequest
  /\ pathname' = h.pathname
  /\ processedRequestIds' = h.processedRequestIds
  /\ isNavigatingToWcPage' = h.isNavigatingToWcPage
  /\ sessionStorageRequest' = h.sessionStorageRequest
  /\ requestFromStorage' = h.requestFromStorage
  /\ pageParams' = h.pageParams
  /\ isProcessing' = h.isProcessing
  /\ inFlight' = h.inFlight
  /\ responses' = h.responses

\* the first effect of the handler: the page to navigate to, "" for none
routeTarget(h) ==
  IF h.pendingRequest = <<>> THEN ""
  ELSE IF h.pendingRequest[1].id \in h.processedRequestIds THEN ""
  ELSE IF ~hasSafeAddress(h.pathname) THEN ""
  ELSE wcPageOf(h.pendingRequest[1].method)

\* the first effect of the handler: a request not seen before with a method
\* that has a page is marked as processed; on an account page it is stored
\* in sessionStorage and the navigation flag is set
routeEffect(h) ==
  IF h.pendingRequest = <<>> THEN h
  ELSE IF h.pendingRequest[1].id \in h.processedRequestIds THEN h
  ELSE IF wcPageOf(h.pendingRequest[1].method) = "" THEN h
  ELSE IF ~hasSafeAddress(h.pathname)
       THEN [h EXCEPT !.processedRequestIds = @ \cup {h.pendingRequest[1].id}]
       ELSE [h EXCEPT !.processedRequestIds = @ \cup {h.pendingRequest[1].id},
                      !.sessionStorageRequest = h.pendingRequest,
                      !.isNavigatingToWcPage = TRUE]

\* the second effect of the handler: on a request page the navigation flag
\* is cleared; elsewhere, unless the handler is navigating to a request
\* page, the pending request is rejected with code 4001
autoRejectEffect(h) ==
  IF h.pendingRequest = <<>> THEN h
  ELSE IF isOnWcPage(h.pathname) THEN [h EXCEPT !.isNavigatingToWcPage = FALSE]
  ELSE IF h.isNavigatingToWcPage THEN h
  ELSE [h EXCEPT !.inFlight =
          Append(@, RespondCall(h.pendingRequest[1], "reject", "auto", h.pathname))]

\* the parameters a request page takes from a request: the wc-tx page only
\* from eth_sendTransaction, the wc-sign page from every request
paramsOf(path, request, params) ==
  IF path = "/safe/wc-sign" \/ request.method = "eth_sendTransaction"
  THEN <<request.id>> ELSE params

\* the effect of a request page on pendingRequest: without a pending
\* request the one in sessionStorage is loaded
pageEffect(h) ==
  IF ~isOnWcPage(h.pathname) THEN h
  ELSE IF h.pendingRequest # <<>>
       THEN [h EXCEPT !.pageParams = paramsOf(h.pathname, h.pendingRequest[1], @)]
       ELSE IF h.sessionStorageRequest # <<>>
            THEN [h EXCEPT !.requestFromStorage = h.sessionStorageRequest,
                           !.pageParams = paramsOf(h.pathname, h.sessionStorageRequest[1], @)]
            ELSE h

\* the router shows another path: the request page that was shown is
\* unmounted, the one that is shown starts from its initial state
showPath(h, path) ==
  IF path = h.pathname THEN h
  ELSE [h EXCEPT !.pathname = path, !.requestFromStorage = <<>>, !.pageParams = <<>>,
                 !.isProcessing = FALSE]

\* the effects of one commit: the two effects of the handler, in order,
\* and the effect of the page; pendingChanged and pathChanged tell which
\* dependencies changed
commitEffects(h, pendingChanged, pathChanged) ==
  LET routed == IF pendingChanged \/ pathChanged THEN routeEffect(h) ELSE h
      rejected == IF pendingChanged \/ pathChanged THEN autoRejectEffect(routed) ELSE routed
  IN IF pendingChanged \/ pathChanged THEN pageEffect(rejected) ELSE rejected

\* the commits that follow a change: the one of the change and, when the
\* first effect navigated, the one of the new path
afterChange(h, pendingChanged, pathChanged) ==
  LET target == routeTarget(h)
      first == commitEffects(h, pendingChanged, pathChanged)
  IN IF (pendingChanged \/ pathChanged) /\ target # "" /\ target # h.pathname
     THEN commitEffects(showPath(first, target), FALSE, TRUE)
     ELSE first

\* clearPendingRequest
clearPendingRequest(h) == [h EXCEPT !.pendingRequest = <<>>, !.sessionStorageRequest = <<>>]

\* pendingRequest || requestFromStorage
currentRequest(h) == IF h.pendingRequest # <<>> THEN h.pendingRequest ELSE h.requestFromStorage

\* the request page shows the request and its buttons
showsRequest(h) ==
  isOnWcPage(h.pathname) /\ currentRequest(h) # <<>> /\ h.pageParams # <<>>

RemoveAt(seq, i) == SubSeq(seq, 1, i - 1) \o SubSeq(seq, i + 1, Len(seq))

\* approveRequest / rejectRequest after respondSessionRequest settled: the
\* response is with the dApp and the pending request is cleared, or the
\* call threw and nothing is sent
respondSettled(h, call, ok) ==
  IF ok
  THEN [h EXCEPT !.responses =
                   Append(@, TerminalResponse(call.request.id, call.kind,
                                              IF call.kind = "reject" THEN 4001 ELSE 0)),
                 !.pendingRequest = <<>>]
  ELSE h

\* setIsProcessing(false) of the page that made the call, when it is shown
stopProcessing(h, call) ==
  IF h.pathname = call.page THEN [h EXCEPT !.isProcessing = FALSE] ELSE h

\* the code that awaited the call, after it settled: the state and the
\* path it navigates to, "" for none
continuation(h, call, ok) ==
  LET settled == respondSettled(h, call, ok)
  IN CASE call.by = "auto" ->
            [state |-> IF ok THEN settled ELSE clearPendingRequest(settled), to |-> ""]
       [] call.by = "reject" ->
            IF ok THEN [state |-> clearPendingRequest(settled), to |-> "/safe"]
            ELSE [state |-> clearPendingRequest(stopProcessing(settled, call)), to |-> ""]
       [] call.by = "back" ->
            [state |-> clearPendingRequest(settled), to |-> "/safe"]
       [] call.by = "approve" ->
            IF ok
            THEN [state |-> [settled EXCEPT !.sessionStorageRequest = <<>>],
                  to |-> IF call.page = "/safe/wc-tx" THEN "/safe/tx" ELSE "/safe"]
            ELSE [state |-> stopProcessing(settled, call), to |-> ""]
       [] OTHER ->
            [state |-> IF ok THEN h
                       ELSE [h EXCEPT !.pendingRequest = <<call.request>>],
             to |-> ""]

NotRequestStep ==
  <<txStoreVars, safeVars, txPageVars, chainVars, msgStoreVars, signedMessage, messageHash,
    approved, dashboardVars, recordVars, hashVars, lateVars>>

\* a step to h: the effects of the change run, the calls under way stay
\* within the bound
RequestStep(h, before) ==
  LET after == afterChange(h, h.pendingRequest # before.pendingRequest,
                           h.pathname # before.pathname)
  IN /\ Len(after.inFlight) <= MaxInFlight
     /\ SetRequestState(after)

\* the session_request listener of the provider: wallet_getCapabilities is
\* answered by the provider when the session has an account, every other
\* request becomes the pending request
SessionRequestOf(method, hasSession) ==
  /\ Len(delivered) < MaxRequests
  /\ LET request == WcRequest(Len(delivered) + 1, method)
         h == RequestState
     IN /\ delivered' = Append(delivered, request)
        /\ IF method = "wallet_getCapabilities" /\ hasSession
           THEN RequestStep([h EXCEPT !.inFlight =
                               Append(@, RespondCall(request, "approve", "provider", ""))], h)
           ELSE RequestStep([h EXCEPT !.pendingRequest = <<request>>], h)
  /\ UNCHANGED NotRequestStep

DeliverRequest ==
  \E method \in RequestMethods, hasSession \in BOOLEAN : SessionRequestOf(method, hasSession)

\* the user opens another path: a link, the address bar, browser back
Navigate ==
  /\ \E path \in Pathnames \ {pathname} :
       RequestStep(showPath(RequestState, path), RequestState)
  /\ UNCHANGED <<delivered, NotRequestStep>>

\* handleApprove of the wc-tx page, handleSign of the wc-sign page, up to
\* the call of approveRequest
HandleApprove ==
  /\ showsRequest(RequestState)
  /\ ~isProcessing
  /\ LET h == RequestState
     IN RequestStep([h EXCEPT !.isProcessing = TRUE,
                              !.inFlight = Append(@, RespondCall(currentRequest(h)[1], "approve",
                                                                  "approve", pathname))], h)
  /\ UNCHANGED <<delivered, NotRequestStep>>

\* handleReject of the request page, up to the call of rejectRequest
HandleReject ==
  /\ showsRequest(RequestState)
  /\ ~isProcessing
  /\ LET h == RequestState
     IN RequestStep([h EXCEPT !.isProcessing = TRUE,
                              !.inFlight = Append(@, RespondCall(currentRequest(h)[1], "reject",
                                                                  "reject", pathname))], h)
  /\ UNCHANGED <<delivered, NotRequestStep>>

\* the Back to Safe button of the request page, up to the call of
\* rejectRequest; isProcessing does not disable it
BackToSafe ==
  /\ showsRequest(RequestState)
  /\ LET h == RequestState
     IN RequestStep([h EXCEPT !.inFlight = Append(@, RespondCall(currentRequest(h)[1], "reject",
                                                                  "back", pathname))], h)
  /\ UNCHANGED <<delivered, NotRequestStep>>

\* a call of respondSessionRequest settles and the code awaiting it goes on
RespondSettles ==
  /\ \E i \in 1..Len(inFlight), ok \in BOOLEAN :
       LET h == RequestState
           call == inFlight[i]
           next == continuation([h EXCEPT !.inFlight = RemoveAt(@, i)], call, ok)
       IN RequestStep(IF next.to = "" THEN next.state ELSE showPath(next.state, next.to), h)
  /\ UNCHANGED <<delivered, NotRequestStep>>

\* the provider is initialised, the layout is mounted on any path
InitRequests ==
  /\ DashboardMounted
  /\ HandlerMounted
  /\ RecordsIntact
  /\ HashesUnset
  /\ LateUnset
  /\ newThreshold = 0
  /\ undeployedSafe = <<>>
  /\ currentTxMap = [k \in Keys |-> <<>>]
  /\ localStorageTx = [k \in Keys |-> <<>>]
  /\ kit = TRUE
  /\ safeInfo = <<>>
  /\ isOwner = FALSE
  /\ safeTx = <<>>
  /\ showModal = FALSE
  /\ broadcastError = FALSE
  /\ searchParams = <<>>
  /\ executed = <<>>
  /\ chainNonce = 0
  /\ currentMsgMap = [k \in Keys |-> <<>>]
  /\ localStorageMsg = [k \in Keys |-> <<>>]
  /\ pendingRequest = <<>>
  /\ signedMessage = <<>>
  /\ messageHash = ""
  /\ approved = <<>>

NextRequests ==
  \/ DeliverRequest
  \/ Navigate
  \/ HandleApprove
  \/ HandleReject
  \/ BackToSafe
  \/ RespondSettles

SpecRequests == InitRequests /\ [][NextRequests]_vars

---------------------------------------------------------------------------
(* Properties of the life of a session request *)

\* C22: for every request id the request source delivered at most one
\* terminal response, approve or reject, is sent, whatever the order of
\* the user's approve, reject and back button, the auto-reject on
\* navigation and the commits that happen while a response is under way.
C22_OneResponse ==
  \A i, j \in 1..Len(responses) : responses[i].id = responses[j].id => i = j

\* a terminal response for the request is with the dApp
Answered(request) == \E i \in 1..Len(responses) : responses[i].id = request.id

\* the application still holds the request: as the pending request, in
\* sessionStorage, in the state of the request page, or in a call of
\* respondSessionRequest that has not settled
Held(request) ==
  \/ pendingRequest = <<request>>
  \/ sessionStorageRequest = <<request>>
  \/ requestFromStorage = <<request>>
  \/ \E i \in 1..Len(inFlight) : inFlight[i].request = request

\* C23: every request the request source delivered gets a terminal
\* response in the end, so none is ever dropped unanswered: a delivered
\* request is answered or the application still holds it, also when it
\* arrived while another request was pending, when its method has no page,
\* when no account page is open and when the reject call fails.
C23_NoneLost ==
  \A i \in 1..Len(delivered) : Answered(delivered[i]) \/ Held(delivered[i])

---------------------------------------------------------------------------
(* Value and data of the transactions that are built, signed and imported *)

\* value and data as a caller or a file may give them: empty or not
RawValues == {"", "0"}
RawDatas == {"", "0xd1"}

\* files of one transaction with any of these values, signed by A
RawFiles ==
  {[kind |-> "transactions",
    txs |-> <<FileEntry([data |-> TxData(value, data, NumNonce(n)), signatures |-> <<SigA>>])>>] :
     value \in RawValues, data \in RawDatas, n \in 0..MaxNonce}

\* a page calls buildSafeTransaction with the fields of a form or a request
BuildRaw ==
  /\ \E value \in RawValues, data \in RawDatas, nonce \in 0..MaxNonce :
       SetTxStore(buildSafeTransaction(TxStore, value, data, nonce))
  /\ UNCHANGED NotTxStore

\* importTx of a file another owner exported or wrote
ImportRaw ==
  /\ \E json \in RawFiles, chainId \in StoreChainArgs : ImportTxOf(json, chainId)
  /\ UNCHANGED NotTxStore

\* signSafeTransaction of a queued transaction
SignQueued ==
  /\ \E i \in 1..Len(getAllTransactions(currentTxMap, SafeAddress, ChainId)) :
       SetTxStore(signSafeTransaction(
                    TxStore, TRUE, getAllTransactions(currentTxMap, SafeAddress, ChainId)[i]).st)
  /\ UNCHANGED NotTxStore

NextRaw ==
  \/ BuildRaw
  \/ ImportRaw
  \/ SignQueued
  \/ RemoveTransaction
  \/ Hydrate

SpecRaw == Init /\ [][NextRaw]_vars

\* a transaction, in memory or persisted, with an empty value or data
EmptyField(tx) == tx.data.value = "" \/ tx.data.data = ""

\* C24: no transaction with the empty string as value or as data is held
\* in the queue or in the persisted record: build, sign, import and
\* hydration normalise "" to "0" for value and to "0x" for data.
C24_NeverEmpty ==
  \A k \in Keys :
    /\ \A i \in 1..Len(currentTxMap[k]) : ~EmptyField(currentTxMap[k][i])
    /\ \A i \in 1..Len(localStorageTx[k]) : ~EmptyField(localStorageTx[k][i])

---------------------------------------------------------------------------
(* Properties of the broadcast *)

\* the queue without the entries of nonce n
WithoutNonce(txs, n) == SelectSeq(txs, LAMBDA tx : Number(tx.data.nonce) # n)

\* the steps of a broadcast: the transaction was sent; the broadcast
\* threw; the user leaves the modal of a broadcast without error
BroadcastSent == safeTx # <<>> /\ chainNonce' # chainNonce
BroadcastFailed == safeTx # <<>> /\ ~(showModal /\ broadcastError) /\ showModal' /\ broadcastError'
BroadcastModalLeft == showModal /\ ~broadcastError /\ ~showModal' /\ kit' = kit

\* the persisted queues of the keys other than key are the same
OtherKeysKept(key) ==
  \A k \in Keys \ {key} :
    currentTxMap'[k] = currentTxMap[k] /\ localStorageTx'[k] = localStorageTx[k]

\* C25: after a successful broadcast of a queued transaction the entry of
\* its nonce is gone from the queue of its key while every other entry of
\* that queue and every other queue is kept, also when the user leaves the
\* broadcast modal; after a failed broadcast the queue and the persisted
\* record are unchanged.
C25_BroadcastFrame ==
  [][/\ BroadcastSent =>
          /\ currentTxMap'[Key(SafeAddress, ChainId)]
               = WithoutNonce(currentTxMap[Key(SafeAddress, ChainId)],
                              Number(safeTx[1].data.nonce))
          /\ \A i \in 1..Len(localStorageTx'[Key(SafeAddress, ChainId)]) :
               Number(localStorageTx'[Key(SafeAddress, ChainId)][i].data.nonce)
                 # Number(safeTx[1].data.nonce)
          /\ OtherKeysKept(Key(SafeAddress, ChainId))
     /\ BroadcastFailed => UNCHANGED txStoreVars
     /\ BroadcastModalLeft => UNCHANGED txStoreVars]_vars

---------------------------------------------------------------------------
(* The stores on a persisted record that may be damaged *)

\* what localStorage may hold under a storage key: the JSON of the map,
\* nothing or the empty string, a string that is not JSON, the JSON null
RecordKinds == {"map", "empty", "unparseable", "null"}

\* JSON.parse(rawMap) throws, or the map it returns cannot be written to
Unusable(raw) == raw \in {"unparseable", "null"}

EmptyMap == [k \in Keys |-> <<>>]

\* the map an operation works on: the parsed record, or {} without one
ParsedMap(raw, ls) == IF raw = "map" THEN ls ELSE EmptyMap

RecordResult(mem, ls, raw, threw) == [mem |-> mem, ls |-> ls, raw |-> raw, threw |-> threw]

\* the hydration effect of SafeTxProvider: an error is caught and ignored
hydrateTxRecord(raw, ls) == IF raw = "map" THEN HydratedTxMap(ls) ELSE EmptyMap

\* the hydration effect of SafeMessageProvider, likewise
hydrateMsgRecord(raw, ls) == IF raw = "map" THEN HydratedMsgMap(ls) ELSE EmptyMap

\* saveTransaction: the in-memory queue is updated, then the record is
\* read with JSON.parse outside any try and written back
saveTransactionOn(st, raw, safeAddress, txObj, chainId) ==
  LET saved == saveTransaction([mem |-> st.mem, ls |-> ParsedMap(raw, st.ls)],
                               safeAddress, txObj, chainId)
  IN IF Unusable(raw)
     THEN RecordResult(saved.mem, st.ls, raw, TRUE)
     ELSE RecordResult(saved.mem, saved.ls, "map", FALSE)

\* removeTransaction: as saveTransaction
removeTransactionOn(st, raw, safeAddress, txHash, nonce, chainId) ==
  LET removed == removeTransaction([mem |-> st.mem, ls |-> ParsedMap(raw, st.ls)],
                                   safeAddress, txHash, nonce, chainId)
  IN IF Unusable(raw)
     THEN RecordResult(removed.mem, st.ls, raw, TRUE)
     ELSE RecordResult(removed.mem, removed.ls, "map", FALSE)

\* importTx: the whole body is in a try; the in-memory queue is updated
\* before the record is read
importTxOn(st, raw, safeAddress, json, chainId) ==
  LET imported == importTx([mem |-> st.mem, ls |-> ParsedMap(raw, st.ls)],
                           safeAddress, json, chainId)
  IN IF Len(ImportedTxs(json)) = 0 THEN RecordResult(st.mem, st.ls, raw, FALSE)
     ELSE IF Unusable(raw) THEN RecordResult(imported.mem, st.ls, raw, FALSE)
     ELSE RecordResult(imported.mem, imported.ls, "map", FALSE)

\* messages of the model and their digests
StoredMessages == {"hello", "bye"}

SetTxRecord(result) ==
  /\ WithinQueueBound(result)
  /\ currentTxMap' = result.mem
  /\ localStorageTx' = result.ls
  /\ rawTxRecord' = result.raw
  /\ storeThrew' = result.threw

NotRecordStep ==
  <<safeVars, txPageVars, chainVars, wcVars, dashboardVars, requestVars, hashVars, lateVars>>

\* a page load: both providers mount and hydrate
HydrateRecords ==
  /\ currentTxMap' = hydrateTxRecord(rawTxRecord, localStorageTx)
  /\ currentMsgMap' = hydrateMsgRecord(rawMsgRecord, localStorageMsg)
  /\ storeThrew' = FALSE
  /\ UNCHANGED <<localStorageTx, localStorageMsg, rawTxRecord, rawMsgRecord, NotRecordStep>>

SaveOnRecord ==
  /\ \E txObj \in TxPoolA, chainId \in StoreChainArgs :
       SetTxRecord(saveTransactionOn(TxStore, rawTxRecord, SafeAddress, txObj, chainId))
  /\ UNCHANGED <<msgStoreVars, rawMsgRecord, NotRecordStep>>

RemoveOnRecord ==
  /\ \E nonce \in 0..MaxNonce, chainId \in StoreChainArgs :
       SetTxRecord(removeTransactionOn(TxStore, rawTxRecord, SafeAddress, NoTxHash,
                                       <<nonce>>, chainId))
  /\ UNCHANGED <<msgStoreVars, rawMsgRecord, NotRecordStep>>

ImportOnRecord ==
  /\ \E json \in ImportFiles, chainId \in StoreChainArgs :
       SetTxRecord(importTxOn(TxStore, rawTxRecord, SafeAddress, json, chainId))
  /\ UNCHANGED <<msgStoreVars, rawMsgRecord, NotRecordStep>>

\* saveMessage: persistToLocalStorage writes the whole in-memory map and
\* does not read the record
SaveMessageOnRecord ==
  /\ \E data \in StoredMessages, sigs \in {<<>>, <<SigA>>} :
       SetMsgStore(saveMessage(MsgStore, SafeAddress,
                               [data |-> data, signatures |-> sigs],
                               getSafeMessageHash(data), ChainId))
  /\ rawMsgRecord' = "map"
  /\ storeThrew' = FALSE
  /\ UNCHANGED <<txStoreVars, rawTxRecord, NotRecordStep>>

RemoveMessageOnRecord ==
  /\ \E data \in StoredMessages :
       SetMsgStore(removeMessage(MsgStore, SafeAddress, getSafeMessageHash(data), ChainId))
  /\ rawMsgRecord' = "map"
  /\ storeThrew' = FALSE
  /\ UNCHANGED <<txStoreVars, rawTxRecord, NotRecordStep>>

\* the providers have mounted on records of any kind
InitRecords ==
  /\ DashboardMounted
  /\ HandlerMounted
  /\ HashesUnset
  /\ LateUnset
  /\ rawTxRecord \in RecordKinds
  /\ rawMsgRecord \in RecordKinds
  /\ storeThrew = FALSE
  /\ newThreshold = 0
  /\ undeployedSafe = <<>>
  /\ currentTxMap = EmptyMap
  /\ localStorageTx = EmptyMap
  /\ kit = FALSE
  /\ safeInfo = <<>>
  /\ isOwner = FALSE
  /\ safeTx = <<>>
  /\ showModal = FALSE
  /\ broadcastError = FALSE
  /\ searchParams = <<>>
  /\ executed = <<>>
  /\ chainNonce = 0
  /\ currentMsgMap = EmptyMap
  /\ localStorageMsg = EmptyMap
  /\ pendingRequest = <<>>
  /\ signedMessage = <<>>
  /\ messageHash = ""
  /\ approved = <<>>

NextRecords ==
  \/ HydrateRecords
  \/ SaveOnRecord
  \/ RemoveOnRecord
  \/ ImportOnRecord
  \/ SaveMessageOnRecord
  \/ RemoveMessageOnRecord

SpecRecords == InitRecords /\ [][NextRecords]_vars

\* C26: on a persisted record that is corrupt or partial every store
\* operation, hydration, saveTransaction, removeTransaction, importTx and
\* the operations of the message store, treats the record as an empty
\* store and completes without throwing.
C26_FailOpen == ~storeThrew

---------------------------------------------------------------------------
(* Signers of the signatures that are added *)

\* ?importSig= links made from any signer and signature a sender may hold
SignerLinks ==
  {ImportSigLink(getTransactionHash(TxOf(NumNonce(0), <<>>)),
                 EthSafeSignature(pasted[1], pasted[2], FALSE)) :
     pasted \in PastedSignatures}

\* a page load with a signature link in the URL
PageLoadSigned == \E link \in SignerLinks : PageLoadOf(<<link>>)

\* signatures arriving by paste and by share link
NextSigners ==
  \/ ConnectKit
  \/ PageLoadSigned
  \/ HandleSharedLinks
  \/ HandleTransfer
  \/ OpenTxPage
  \/ HandleAddSignature

SpecSigners == Init /\ [][NextSigners]_vars

\* the signers of the signatures of a list of transactions
SignersOf(txs) ==
  {txs[i].signatures[j].signer : <<i, j>> \in
     {<<i, j>> \in (1..Len(txs)) \X (1..MaxOwners + 1) : j <= Len(txs[i].signatures)}}

\* C27: a signature whose signer is not a valid address is rejected on
\* every path that adds a signature and leaves the signature map and the
\* persisted queue unchanged: no queue, persisted record or open
\* transaction ever holds a signature of such a signer.
C27_ValidSigners ==
  /\ \A key \in Keys :
       \A signer \in SignersOf(currentTxMap[key]) \cup SignersOf(localStorageTx[key]) :
         IsAddress(signer)
  /\ \A signer \in SignersOf(safeTx) : IsAddress(signer)

---------------------------------------------------------------------------
(* The message store under saveMessage and removeMessage *)

\* the signatures a saved message may carry
MessageSignatures == {<<>>, <<SigA>>, <<SigA, SigB>>}

\* a page saves a message under the queue of a chain or of no chain
SaveMessage ==
  /\ \E data \in StoredMessages, sigs \in MessageSignatures, chainId \in StoreChainArgs :
       SetMsgStore(saveMessage(MsgStore, SafeAddress, [data |-> data, signatures |-> sigs],
                               getSafeMessageHash(data), chainId))
  /\ UNCHANGED <<safeVars, txStoreVars, txPageVars, chainVars, wcVars, appVars>>

\* a page removes the message with a hash
RemoveMessage ==
  /\ \E data \in StoredMessages, chainId \in StoreChainArgs :
       SetMsgStore(removeMessage(MsgStore, SafeAddress, getSafeMessageHash(data), chainId))
  /\ UNCHANGED <<safeVars, txStoreVars, txPageVars, chainVars, wcVars, appVars>>

NextMessages ==
  \/ SaveMessage
  \/ RemoveMessage

SpecMessages == Init /\ [][NextMessages]_vars

MessageHashes == {getSafeMessageHash(data) : data \in StoredMessages}

\* the entries of a queue stored under a hash, and under the other hashes
WithHash(entries, hash) == SelectSeq(entries, LAMBDA entry : entry.hash = hash)
WithoutHash(entries, hash) == SelectSeq(entries, LAMBDA entry : entry.hash # hash)

\* C28: under saveMessage and removeMessage every key holds at most one
\* message per hash; a call changes the entry of one hash under one key
\* only: saving a stored hash replaces its entry in place, removing deletes
\* it, the entries of the other hashes and the other keys stay, and the
\* persisted record follows the in-memory map.
C28_MessageUpsert ==
  [][/\ \A k \in Keys, h \in MessageHashes : Len(WithHash(currentMsgMap'[k], h)) <= 1
     /\ \E key \in Keys, hash \in MessageHashes :
          /\ \A k \in Keys \ {key} : currentMsgMap'[k] = currentMsgMap[k]
          /\ WithoutHash(currentMsgMap'[key], hash) = WithoutHash(currentMsgMap[key], hash)
          /\ (WithHash(currentMsgMap[key], hash) # <<>>
               /\ WithHash(currentMsgMap'[key], hash) # <<>>)
              => /\ Len(currentMsgMap'[key]) = Len(currentMsgMap[key])
                 /\ currentMsgMap'[key][FindMsgIndex(currentMsgMap[key], hash)].hash = hash
     /\ localStorageMsg' = persistToLocalStorage(currentMsgMap')]_vars

\* both messages are stored under one key, one of them with two
\* signatures, and one message under the other key
C28_Witness ==
  \E key \in Keys :
    /\ Len(currentMsgMap[key]) = 2
    /\ \E i \in 1..2 : Len(currentMsgMap[key][i].message.signatures) = 2
    /\ \E k \in Keys \ {key} : Len(currentMsgMap[k]) = 1

---------------------------------------------------------------------------
(* messageHashing and the pages that compute the SafeMessage digest *)

\* the UTF-16 code unit of a character of a version string
CharCode(c) ==
  CASE c = "." -> 46
    [] c = "0" -> 48
    [] c = "1" -> 49
    [] c = "2" -> 50
    [] c = "3" -> 51
    [] c = "4" -> 52
    [] c = "5" -> 53
    [] c = "6" -> 54
    [] c = "7" -> 55
    [] c = "8" -> 56
    [] OTHER -> 57

\* a >= b on strings: code unit by code unit, a prefix is smaller
RECURSIVE StringGeq(_, _)
StringGeq(a, b) ==
  IF b = <<>> THEN TRUE
  ELSE IF a = <<>> THEN FALSE
  ELSE IF CharCode(Head(a)) > CharCode(Head(b)) THEN TRUE
  ELSE IF CharCode(Head(a)) < CharCode(Head(b)) THEN FALSE
  ELSE StringGeq(Tail(a), Tail(b))

\* "1.3.0"
Version130 == <<"1", ".", "3", ".", "0">>

\* safeInfo.version || "1.4.1"
VersionOrDefault(version) == IF version = <<>> THEN DefaultVersion ELSE version

\* ethers.TypedDataEncoder.hashDomain, hashStruct and hash, ethers.hashMessage
hashDomain(domain) == <<"domainHash", domain>>
hashStruct(primaryType, message) == <<"structHash", primaryType, message>>
hashTyped(domain, message) == <<"eip712", domain, message>>
hashMessage(message) == <<"eip191", message>>

\* the EIP712HashResult of a SafeMessage over messageContent under a domain
SafeMessageResult(domain, messageContent) ==
  [domainHash |-> hashDomain(domain),
   messageHash |-> hashStruct("SafeMessage", messageContent),
   eip712Hash |-> hashTyped(domain, messageContent),
   safeMessage |-> messageContent]

\* calculateSafeMessageHashes with the chain id in the domain of every version
calculateSafeMessageHashes_Always(safeAddress, chainId, messageContent, version) ==
  SafeMessageResult([chainId |-> chainId, verifyingContract |-> safeAddress], messageContent)

\* calculateSafeMessageHashes(safeAddress, chainId, messageContent, safeVersion)
calculateSafeMessageHashes(safeAddress, chainId, messageContent, version) ==
  LET includeChainId == StringGeq(version, Version130)
      domain == IF includeChainId
                THEN [chainId |-> chainId, verifyingContract |-> safeAddress]
                ELSE [verifyingContract |-> safeAddress]
  IN SafeMessageResult(domain, messageContent)

\* the fields of an EIP-712 object
TypedFields == {"domain", "types", "message", "primaryType"}

\* validateTypedData(typedData): the message of the error thrown, "" if valid
validateTypedData(fields) ==
  IF "types" \notin fields THEN "Invalid EIP-712 format: missing 'types' field"
  ELSE IF "domain" \notin fields THEN "Invalid EIP-712 format: missing 'domain' field"
  ELSE IF "message" \notin fields THEN "Invalid EIP-712 format: missing 'message' field"
  ELSE IF "primaryType" \notin fields
  THEN "Invalid EIP-712 format: missing 'primaryType' field"
  ELSE ""

\* calculateTypedDataHash(typedData)
calculateTypedDataHash(fields) ==
  [domainHash |-> hashDomain(fields),
   messageHash |-> hashStruct("primaryType", fields),
   eip712Hash |-> hashTyped("domain", fields),
   safeMessage |-> <<>>]

\* ethers.TypedDataEncoder.hash(domain, types, message) of the pages throws
\* when one of its three arguments is undefined
EncoderThrows(fields) == {"domain", "types", "message"} \ fields # {}

NotHashStep ==
  <<safeVars, txStoreVars, txPageVars, chainVars, msgStoreVars, wcVars, dashboardVars,
    requestVars, recordVars, lateVars>>

\* SignMessageClient.handleCalculateHashes
HandleCalculateHashesOf(messageType, personalMessage) ==
  /\ IF messageType = "personal_sign"
     THEN IF personalMessage = ""
          THEN /\ hashError' = <<"Please enter a message">>
               /\ rawHashes' = <<>>
               /\ safeHashes' = <<>>
          ELSE LET personalHash == hashMessage(personalMessage)
               IN /\ hashError' = <<>>
                  /\ rawHashes' = <<[domainHash |-> "", messageHash |-> "",
                                      eip712Hash |-> personalHash,
                                      safeMessage |-> personalHash]>>
                  /\ safeHashes' = <<calculateSafeMessageHashes(
                                        SafeAddress, hashChainId, personalHash,
                                        VersionOrDefault(safeVersion))>>
     ELSE IF validateTypedData(typedData) # ""
          THEN /\ hashError' = <<validateTypedData(typedData)>>
               /\ rawHashes' = <<>>
               /\ safeHashes' = <<>>
          ELSE LET typedDataHash == calculateTypedDataHash(typedData)
               IN /\ hashError' = <<>>
                  /\ rawHashes' = <<typedDataHash>>
                  /\ safeHashes' = <<calculateSafeMessageHashes(
                                        SafeAddress, hashChainId, typedDataHash.eip712Hash,
                                        VersionOrDefault(safeVersion))>>
  /\ UNCHANGED <<safeVersion, hashChainId, typedData, pageEip712Data, wcEip712Data, NotHashStep>>

HandleCalculateHashes ==
  \E messageType \in {"personal_sign", "eip712"}, personalMessage \in {"", "hello"} :
    HandleCalculateHashesOf(messageType, personalMessage)

\* the message details page: the effect that computes the hashes of the
\* stored message, a string or an EIP-712 object
MessagePageHashesOf(isString) ==
  /\ IF ~isString /\ EncoderThrows(typedData)
     THEN UNCHANGED pageEip712Data
     ELSE LET safeMessageMessage == IF isString THEN hashMessage("hello")
                                    ELSE hashTyped("domain", typedData)
              version == VersionOrDefault(safeVersion)
              includeChainId == StringGeq(version, Version130)
              domain == IF includeChainId
                        THEN [chainId |-> hashChainId, verifyingContract |-> SafeAddress]
                        ELSE [verifyingContract |-> SafeAddress]
          IN pageEip712Data' = <<SafeMessageResult(domain, safeMessageMessage)>>
  /\ UNCHANGED <<safeVersion, hashChainId, typedData, rawHashes, safeHashes, hashError,
                 wcEip712Data, NotHashStep>>

MessagePageHashes == \E isString \in BOOLEAN : MessagePageHashesOf(isString)

\* the methods a request shown on the sign page may have
SignMethods == {"personal_sign", "eth_sign", "eth_signTypedData", "eth_signTypedData_v4",
                "eth_sendTransaction"}

\* WalletConnectSignClient: the effect that computes the hashes of the request
WcSignPageHashesOf(method) ==
  /\ IF method \in {"personal_sign", "eth_sign"}
     THEN LET version == VersionOrDefault(safeVersion)
              includeChainId == StringGeq(version, Version130)
              domain == IF includeChainId
                        THEN [chainId |-> hashChainId, verifyingContract |-> SafeAddress]
                        ELSE [verifyingContract |-> SafeAddress]
          IN wcEip712Data' = <<SafeMessageResult(domain, hashMessage("hello"))>>
     ELSE IF method \in {"eth_signTypedData", "eth_signTypedData_v4"}
     THEN IF {"domain", "types", "message"} \ typedData # {}
          THEN wcEip712Data' = <<>>
          ELSE LET version == VersionOrDefault(safeVersion)
                   includeChainId == StringGeq(version, Version130)
                   domain == IF includeChainId
                             THEN [chainId |-> hashChainId, verifyingContract |-> SafeAddress]
                             ELSE [verifyingContract |-> SafeAddress]
               IN wcEip712Data' =
                    <<SafeMessageResult(domain, hashTyped("domain", typedData))>>
     ELSE wcEip712Data' = <<>>
  /\ UNCHANGED <<safeVersion, hashChainId, typedData, rawHashes, safeHashes, hashError,
                 pageEip712Data, NotHashStep>>

WcSignPageHashes == \E method \in SignMethods : WcSignPageHashesOf(method)

\* the versions of the accounts and the chains they are on
Versions ==
  {<<"0", ".", "1", ".", "0">>, <<"1", ".", "0", ".", "0">>, <<"1", ".", "2", ".", "0">>,
   Version130, DefaultVersion, <<"1", ".", "1", "0", ".", "0">>}
HashChainIds == {1, 10}

\* the pages are opened for an account of any version with any EIP-712 object
InitHashes ==
  /\ DashboardMounted
  /\ HandlerMounted
  /\ RecordsIntact
  /\ LateUnset
  /\ safeVersion \in Versions
  /\ hashChainId \in HashChainIds
  /\ typedData \in SUBSET TypedFields
  /\ rawHashes = <<>>
  /\ safeHashes = <<>>
  /\ hashError = <<>>
  /\ pageEip712Data = <<>>
  /\ wcEip712Data = <<>>
  /\ newThreshold = 0
  /\ undeployedSafe = <<>>
  /\ currentTxMap = EmptyMap
  /\ localStorageTx = EmptyMap
  /\ kit = FALSE
  /\ safeInfo = <<>>
  /\ isOwner = FALSE
  /\ safeTx = <<>>
  /\ showModal = FALSE
  /\ broadcastError = FALSE
  /\ searchParams = <<>>
  /\ executed = <<>>
  /\ chainNonce = 0
  /\ currentMsgMap = EmptyMap
  /\ localStorageMsg = EmptyMap
  /\ pendingRequest = <<>>
  /\ signedMessage = <<>>
  /\ messageHash = ""
  /\ approved = <<>>

NextHashes ==
  \/ HandleCalculateHashes
  \/ MessagePageHashes
  \/ WcSignPageHashes

SpecHashes == InitHashes /\ [][NextHashes]_vars

\* the SafeMessage results the three places hold
SafeMessageResults ==
  {r[1] : r \in {safeHashes, pageEip712Data, wcEip712Data} \ {<<>>}}

\* the domain a SafeMessage result was computed under
DomainOf(result) == result.domainHash[2]

\* C29: the SafeMessage domain contains chainId, the chain the page hashes
\* for, exactly when the version of the account compares >= "1.3.0" as a
\* string, and only verifyingContract otherwise; the sign-message page, the
\* message details page and the WalletConnect sign page take the same
\* decision.
C29_DomainByVersion ==
  \A result \in SafeMessageResults :
    /\ DomainOf(result).verifyingContract = SafeAddress
    /\ IF StringGeq(safeVersion, Version130)
       THEN /\ DOMAIN DomainOf(result) = {"chainId", "verifyingContract"}
            /\ DomainOf(result).chainId = hashChainId
       ELSE DOMAIN DomainOf(result) = {"verifyingContract"}

\* version "1.4.1" on chain 1: the three places hold a digest whose domain
\* has chainId 1
C29_Witness ==
  /\ safeVersion = DefaultVersion
  /\ hashChainId = 1
  /\ safeHashes # <<>> /\ pageEip712Data # <<>> /\ wcEip712Data # <<>>
  /\ \A result \in SafeMessageResults : DomainOf(result).chainId = 1

\* a result is the digest of an EIP-712 object
OfTypedData(result) == result.safeMessage[1] = "eip712"

\* C30: typed data that lacks domain, types, message or primaryType is
\* rejected before any hash is computed on every path that hashes typed
\* data: neither the sign-message page nor the WalletConnect sign page
\* holds a hash of such an object.
C30_ValidatedFirst ==
  TypedFields \ typedData # {} =>
    /\ rawHashes = <<>> \/ rawHashes[1].eip712Hash[1] # "eip712"
    /\ safeHashes = <<>> \/ ~OfTypedData(safeHashes[1])
    /\ wcEip712Data = <<>> \/ ~OfTypedData(wcEip712Data[1])

---------------------------------------------------------------------------
(* MessageDetailsClient and the other places that send the signatures of a
   message to the dApp *)

MaxResponds == 2

\* the message the details page is opened for, and its route parameter
DetailMessage == SignRequest.message
DetailHash == getSafeMessageHash(DetailMessage)

\* the ways a call of approveRequest ends: "ok" or the message of the error
RespondOutcomes ==
  {"ok", "No matching key. history: 1", "Record was recently deleted - session: t1",
   "Missing or invalid. request() topic: t1", "Request expired"}

\* errorMsg.includes(part) on the error messages of the model
Includes(errorMsg, part) ==
  <<errorMsg, part>> \in
    {<<"No matching key. history: 1", "No matching key">>,
     <<"Record was recently deleted - session: t1", "recently deleted">>,
     <<"Missing or invalid. request() topic: t1", "Missing or invalid">>}

\* the stale test looking for the first substring only
IsStale_FirstOnly(errorMsg) == Includes(errorMsg, "No matching key")

\* errorMsg.includes("No matching key") || errorMsg.includes("recently
\* deleted") || errorMsg.includes("Missing or invalid")
IsStale(errorMsg) ==
  \/ Includes(errorMsg, "No matching key")
  \/ Includes(errorMsg, "recently deleted")
  \/ Includes(errorMsg, "Missing or invalid")

NotDetailStep ==
  <<safeVars, txStoreVars, txPageVars, chainVars, dashboardVars, requestVars, recordVars,
    hashVars, buildVars, tabVars, fetchVars>>

\* the approveRequest of the page: the call is recorded; the response is
\* with the dApp and the provider clears its pending request when it
\* resolves, the reference is removed when it resolves or fails stale, the
\* message is removed and the page left when it resolves
RespondFromDetails(saved, message, outcome) ==
  /\ Len(respondCalls) < MaxResponds
  /\ respondCalls' = Append(respondCalls, [id |-> wcMessageRef[1].id, outcome |-> outcome])
  /\ IF outcome = "ok"
     THEN /\ approved' = <<Response(wcMessageRef[1], message)>>
          /\ pendingRequest' = <<>>
          /\ wcMessageRef' = <<>>
          /\ SetMsgStore(removeMessage(saved, SafeAddress, DetailHash, ChainId))
          /\ safeMessage' = <<>>
     ELSE /\ wcMessageRef' = IF IsStale(outcome) THEN <<>> ELSE wcMessageRef
          /\ SetMsgStore(saved)
          /\ safeMessage' = <<message>>
          /\ UNCHANGED <<approved, pendingRequest>>

\* the user opens the page of the message: the page shown before unmounts,
\* this one mounts and loads the message with the hash of the route
OpenMessagePage ==
  /\ kit
  /\ safeMessage = <<>>
  /\ LET allMessages == getAllMessages(currentMsgMap, SafeAddress, ChainId)
         i == FindMsgByDigest(allMessages, DetailHash)
     IN /\ i > 0
        /\ safeMessage' = <<allMessages[i]>>
  /\ signedMessage' = <<>>
  /\ messageHash' = ""
  /\ UNCHANGED <<msgStoreVars, pendingRequest, approved, wcMessageRef, respondCalls,
                 NotDetailStep>>

\* the user leaves the page
CloseMessagePage ==
  /\ safeMessage # <<>>
  /\ safeMessage' = <<>>
  /\ UNCHANGED <<msgStoreVars, wcVars, wcMessageRef, respondCalls, NotDetailStep>>

\* MessageDetailsClient.handleSign, offered to an owner who has not signed
DetailHandleSignOf(outcome) ==
  /\ safeMessage # <<>>
  /\ kit
  /\ isOwner
  /\ ~HasSignature(safeMessage[1].signatures, toLowerCase(connectedAddress))
  /\ LET signed == signMessage(safeMessage[1])
         saved == saveMessage(MsgStore, SafeAddress, signed, DetailHash, ChainId)
     IN IF Len(signed.signatures) >= ThresholdOrOne(safeInfo) /\ wcMessageRef # <<>>
        THEN RespondFromDetails(saved, signed, outcome)
        ELSE /\ SetMsgStore(saved)
             /\ safeMessage' = <<signed>>
             /\ UNCHANGED <<approved, pendingRequest, wcMessageRef, respondCalls>>
  /\ UNCHANGED <<signedMessage, messageHash, NotDetailStep>>

DetailHandleSign == \E outcome \in RespondOutcomes : DetailHandleSignOf(outcome)

\* MessageDetailsClient.handleSendToWalletConnect, offered when the
\* threshold is met and a request reference is stored
HandleSendToWalletConnectOf(outcome) ==
  /\ safeMessage # <<>>
  /\ kit
  /\ Len(safeMessage[1].signatures) >= ThresholdOrOne(safeInfo)
  /\ wcMessageRef # <<>>
  /\ Len(safeMessage[1].signatures) > 0
  /\ RespondFromDetails(MsgStore, safeMessage[1], outcome)
  /\ UNCHANGED <<signedMessage, messageHash, NotDetailStep>>

HandleSendToWalletConnect ==
  \E outcome \in RespondOutcomes : HandleSendToWalletConnectOf(outcome)

\* the reference of the request of a message that waits for signatures is
\* put under "wc-message-" + hash
StoreRequestReference ==
  /\ pendingRequest # <<>>
  /\ wcMessageRef = <<>>
  /\ wcMessageRef' = <<[topic |-> pendingRequest[1].topic, id |-> pendingRequest[1].id]>>
  /\ UNCHANGED <<msgStoreVars, wcVars, safeMessage, respondCalls, NotDetailStep>>

\* SafeDashboardClient.handleSharedLinks, importMsg, with the dashboard
\* shown: the message of the link, with the signatures the sender held, is
\* saved under its hash
ImportMessageLinkOf(signatures) ==
  /\ kit
  /\ safeMessage = <<>>
  /\ signedMessage = <<>>
  /\ LET msgObj == [data |-> DetailMessage, signatures |-> addSignatures(<<>>, signatures)]
     IN SetMsgStore(saveMessage(MsgStore, SafeAddress, msgObj,
                                getSafeMessageHash(msgObj.data), ChainId))
  /\ UNCHANGED <<wcVars, detailVars, NotDetailStep>>

ImportMessageLink == \E signatures \in {<<>>, <<SigB>>} : ImportMessageLinkOf(signatures)

\* WalletConnectSignClient, "Check for Signature Updates": the stored
\* message replaces the one shown when it holds more signatures, and is
\* sent when it meets the threshold
CheckForUpdatesOf(outcome) ==
  /\ kit
  /\ safeMessage = <<>>
  /\ signedMessage # <<>>
  /\ safeInfo # <<>>
  /\ Len(signedMessage[1].message.signatures) < safeInfo[1].threshold
  /\ LET allMessages == getAllMessages(currentMsgMap, SafeAddress, ChainId)
         i == IF messageHash = "" THEN 0 ELSE FindMsgByDigest(allMessages, messageHash)
     IN IF i = 0
        THEN UNCHANGED <<msgStoreVars, wcVars>>
        ELSE IF Len(allMessages[i].signatures) <= Len(signedMessage[1].message.signatures)
        THEN UNCHANGED <<msgStoreVars, wcVars>>
        ELSE IF Len(allMessages[i].signatures) >= ThresholdOrOne(safeInfo)
                /\ pendingRequest # <<>> /\ outcome = "ok"
        THEN ApproveAndLeave(MsgStore, allMessages[i])
        ELSE /\ signedMessage' = <<[message |-> allMessages[i], isPlain |-> FALSE]>>
             /\ UNCHANGED <<msgStoreVars, pendingRequest, messageHash, approved>>
  /\ UNCHANGED <<detailVars, NotDetailStep>>

CheckForUpdates == \E outcome \in Outcomes : CheckForUpdatesOf(outcome)

\* handleSign and handleAddSignature of the WalletConnect sign page, with
\* that page shown
SignOnRequestPage == safeMessage = <<>> /\ WcHandleSign
AddSignatureOnRequestPage == safeMessage = <<>> /\ WcHandleAddSignature

\* collecting the signatures of a message and sending them to the dApp
NextCollect ==
  \/ ConnectKit
  \/ SetSafeInfo
  \/ SessionRequest
  \/ SignOnRequestPage
  \/ AddSignatureOnRequestPage
  \/ CheckForUpdates
  \/ ImportMessageLink
  \/ StoreRequestReference
  \/ OpenMessagePage
  \/ CloseMessagePage
  \/ DetailHandleSign
  \/ HandleSendToWalletConnect

SpecCollect == Init /\ [][NextCollect]_vars

---------------------------------------------------------------------------
(* Properties of the response that carries the signatures of a message *)

\* a response has been sent to the dApp in this step
ResponseSent == approved' # approved /\ approved' # <<>>

\* the signature data of a set of signatures in ascending order of the
\* signer address read as an unsigned integer
CanonicalBlob(sigs) ==
  LET n == Len(sigs)
      ordered == CHOOSE f \in [1..n -> SigSet(sigs)] :
                   \A i, j \in 1..n : i < j => AddrNum(f[i].signer) < AddrNum(f[j].signer)
  IN [i \in 1..n |-> ordered[i].data]

\* the signatures the store holds for the message before the step
StoredSignatures ==
  LET allMessages == getAllMessages(currentMsgMap, SafeAddress, ChainId)
      i == FindMsgByDigest(allMessages, DetailHash)
  IN IF i = 0 THEN <<>> ELSE allMessages[i].signatures

\* C31: the blob sent to the dApp lists the signatures in ascending order
\* of the signer address read as an unsigned integer, whatever the order
\* in which they were added, and encodes all the signatures held for the
\* message at that moment, one per signer.
C31_CanonicalBlob ==
  [][ResponseSent =>
       /\ approved'[1].result = CanonicalBlob(approved'[1].signatures)
       /\ Len(approved'[1].result) = Cardinality(SignerSet(approved'[1].signatures))
       /\ SignerSet(StoredSignatures) \subseteq SignerSet(approved'[1].signatures)]_vars

\* a response was sent for a message that the other owner signed first
C31_Witness ==
  /\ approved # <<>>
  /\ Len(approved[1].signatures) = 2
  /\ approved[1].signatures[1].signer = "0xB"
  /\ approved[1].result = <<"sigA", "sigB">>

\* the message details page has called approveRequest in this step
RespondCalled == respondCalls' # respondCalls

\* the error messages of an expired or invalidated session
StaleErrors ==
  {"No matching key. history: 1", "Record was recently deleted - session: t1",
   "Missing or invalid. request() topic: t1"}

C32_SentIsRemoved ==
  [][(/\ ResponseSent
      /\ safeInfo # <<>>
      /\ Len(approved'[1].signatures) >= safeInfo[1].threshold)
     => FindMsgIndex(currentMsgMap'[Key(SafeAddress, ChainId)], DetailHash) = 0]_vars

---------------------------------------------------------------------------
(* The builders that save into the queue, and the nonce warning *)

\* the payloads of the builders
RequestData == "0xd2"
OwnerChangeData == "0xd3"

\* TokenTransferModal, the effect that validates the nonce field: no
\* warning for an empty field or without safeInfo, otherwise a warning for
\* a nonce below safeInfo.nonce or one the queue holds
nonceWarning(customNonce, info, queuedTransactions) ==
  IF customNonce = <<>> \/ info = <<>> THEN ""
  ELSE IF customNonce[1] < info[1].nonce THEN "already been executed on-chain"
  ELSE IF \E i \in 1..Len(queuedTransactions) :
            Number(queuedTransactions[i].data.nonce) = customNonce[1]
       THEN "already queued. Building this will overwrite it."
       ELSE ""

\* kit.createTransaction with or without options.nonce: without it the
\* kit takes the nonce of the contract
NonceOrOnChain(customNonce) == IF customNonce = <<>> THEN chainNonce ELSE customNonce[1]

\* what is known of a build: the builder, the nonce, the queue and the
\* account state it met, and the warning the user saw
BuildOf(builder, nonce, warning) ==
  [builder |-> builder, nonce |-> nonce, warning |-> warning,
   info |-> safeInfo,
   queued |-> LET txs == getAllTransactions(currentTxMap, SafeAddress, ChainId)
              IN {Number(txs[i].data.nonce) : i \in 1..Len(txs)}]

\* buildSafeTransaction called by one of the builders
BuildStep(builder, data, nonce, warning) ==
  /\ kit
  /\ safeTx = <<>>
  /\ nonce <= MaxNonce
  /\ SetTxStore(buildSafeTransaction(TxStore, "0", data, nonce))
  /\ lastBuild' = <<BuildOf(builder, nonce, warning)>>
  /\ UNCHANGED <<safeVars, txPageVars, chainVars, msgStoreVars, wcVars, dashboardVars,
                 requestVars, recordVars, hashVars, detailVars, tabVars, fetchVars>>

\* TokenTransferModal.handleTransfer with the nonce field as it stands:
\* the warning of the validation effect is on screen
BuildTransfer ==
  \E customNonce \in CustomNonces :
    BuildStep("transfer", TransferData, NonceOrOnChain(customNonce),
              nonceWarning(customNonce, safeInfo,
                           getAllTransactions(currentTxMap, SafeAddress, ChainId)))

\* WalletConnectTxClient.handleApprove up to buildSafeTransaction: the
\* nonce field is only checked to be a number that is not negative
BuildFromRequest ==
  \E customNonce \in CustomNonces :
    BuildStep("request", RequestData, NonceOrOnChain(customNonce), "")

\* handleOwnerManagementBatch: createBatchedOwnerManagementTransaction
\* builds without a nonce
BuildOwnerChange ==
  /\ safeInfo # <<>>
  /\ BuildStep("owners", OwnerChangeData, NonceOrOnChain(<<>>), "")

NextNonceBuilders ==
  \/ ConnectKit
  \/ SetSafeInfo
  \/ OtherOwnerExecutes
  \/ HandleDeleteTransaction
  \/ BuildTransfer
  \/ BuildFromRequest
  \/ BuildOwnerChange

SpecNonceBuilders == Init /\ [][NextNonceBuilders]_vars

\* the build met a nonce below the nonce of the loaded account state or a
\* nonce the queue held
NonceConflict(build) ==
  \/ build.info # <<>> /\ build.nonce < build.info[1].nonce
  \/ build.nonce \in build.queued

\* C33: whenever one of the builders that save into the queue builds with
\* a nonce below the on-chain nonce of the loaded account state or equal
\* to a queued nonce, a nonce warning was on screen at that moment.
C33_WarnedBeforeOverwrite ==
  (lastBuild # <<>> /\ lastBuild[1].info # <<>> /\ NonceConflict(lastBuild[1]))
    => lastBuild[1].warning # ""

---------------------------------------------------------------------------
(* Two tabs of one browser on the same persisted records *)

MaxTabOps == 4

Tabs == {1, 2}

\* the in-memory maps of a tab
TabTxMap(tab) == IF tab = 1 THEN currentTxMap ELSE otherTxMap
TabMsgMap(tab) == IF tab = 1 THEN currentMsgMap ELSE otherMsgMap

\* what each tab saves: the same nonce and the same message, signed by the
\* owner connected in that tab
TabTx(tab) == TxOf(NumNonce(0), IF tab = 1 THEN <<SigA>> ELSE <<SigB>>)
TabMessage(tab) ==
  [data |-> DetailMessage, signatures |-> IF tab = 1 THEN <<SigA>> ELSE <<SigB>>]

\* a store operation of a tab ends: its memory and the shared record
SetTabTxStore(tab, st) ==
  /\ tabOps < MaxTabOps
  /\ tabOps' = tabOps + 1
  /\ localStorageTx' = st.ls
  /\ IF tab = 1
     THEN currentTxMap' = st.mem /\ UNCHANGED otherTxMap
     ELSE otherTxMap' = st.mem /\ UNCHANGED currentTxMap
  /\ UNCHANGED <<safeVars, txPageVars, chainVars, msgStoreVars, wcVars, dashboardVars,
                 requestVars, recordVars, hashVars, detailVars, buildVars, fetchVars,
                 otherMsgMap>>

SetTabMsgStore(tab, ms) ==
  /\ tabOps < MaxTabOps
  /\ tabOps' = tabOps + 1
  /\ localStorageMsg' = ms.ls
  /\ IF tab = 1
     THEN currentMsgMap' = ms.mem /\ UNCHANGED otherMsgMap
     ELSE otherMsgMap' = ms.mem /\ UNCHANGED currentMsgMap
  /\ UNCHANGED <<safeVars, txStoreVars, txPageVars, chainVars, wcVars, dashboardVars,
                 requestVars, recordVars, hashVars, detailVars, buildVars, fetchVars,
                 otherTxMap>>

TabSaveTransactionOf(tab, chainId) ==
  SetTabTxStore(tab, saveTransaction([mem |-> TabTxMap(tab), ls |-> localStorageTx],
                                     SafeAddress, TabTx(tab), chainId))

TabRemoveTransactionOf(tab, chainId) ==
  SetTabTxStore(tab, removeTransaction([mem |-> TabTxMap(tab), ls |-> localStorageTx],
                                       SafeAddress, NoTxHash, <<0>>, chainId))

TabSaveMessageOf(tab, chainId) ==
  SetTabMsgStore(tab, saveMessage([mem |-> TabMsgMap(tab), ls |-> localStorageMsg],
                                  SafeAddress, TabMessage(tab), DetailHash, chainId))

TabRemoveMessageOf(tab, chainId) ==
  SetTabMsgStore(tab, removeMessage([mem |-> TabMsgMap(tab), ls |-> localStorageMsg],
                                    SafeAddress, DetailHash, chainId))

TabSaveTransaction ==
  \E tab \in Tabs, chainId \in StoreChainArgs : TabSaveTransactionOf(tab, chainId)

TabRemoveTransaction ==
  \E tab \in Tabs, chainId \in StoreChainArgs : TabRemoveTransactionOf(tab, chainId)

TabSaveMessage ==
  \E tab \in Tabs, chainId \in StoreChainArgs : TabSaveMessageOf(tab, chainId)

TabRemoveMessage ==
  \E tab \in Tabs, chainId \in StoreChainArgs : TabRemoveMessageOf(tab, chainId)

\* a tab is reloaded: both providers hydrate from the records
TabReload ==
  /\ \E tab \in Tabs :
       IF tab = 1
       THEN /\ currentTxMap' = HydratedTxMap(localStorageTx)
            /\ currentMsgMap' = HydratedMsgMap(localStorageMsg)
            /\ UNCHANGED <<otherTxMap, otherMsgMap>>
       ELSE /\ otherTxMap' = HydratedTxMap(localStorageTx)
            /\ otherMsgMap' = HydratedMsgMap(localStorageMsg)
            /\ UNCHANGED <<currentTxMap, currentMsgMap>>
  /\ UNCHANGED <<localStorageTx, localStorageMsg, tabOps, safeVars, txPageVars, chainVars,
                 wcVars, dashboardVars, requestVars, recordVars, hashVars, detailVars, buildVars,
                 fetchVars>>

NextTabs ==
  \/ TabSaveTransaction
  \/ TabRemoveTransaction
  \/ TabSaveMessage
  \/ TabRemoveMessage
  \/ TabReload

SpecTabs == Init /\ [][NextTabs]_vars

\* a tab ends a store operation under the key of chainId
TabWrites(chainId) ==
  \E tab \in Tabs :
    \/ TabSaveTransactionOf(tab, chainId)
    \/ TabRemoveTransactionOf(tab, chainId)
    \/ TabSaveMessageOf(tab, chainId)
    \/ TabRemoveMessageOf(tab, chainId)

\* C35: a store operation of a tab under one key leaves the persisted
\* entries of every other key, in both records, as they were, whichever
\* tab wrote them.
C35_OtherKeysKept ==
  [][\A chainId \in StoreChainArgs :
       TabWrites(chainId) =>
         \A k \in Keys \ {Key(SafeAddress, chainId)} :
           /\ localStorageTx'[k] = localStorageTx[k]
           /\ localStorageMsg'[k] = localStorageMsg[k]]_vars

---------------------------------------------------------------------------
(* One tab: the persisted records against the in-memory maps *)

\* C36: with one tab, after every store operation the persisted record of
\* each key is the in-memory queue of that key, for transactions and for
\* messages; in particular a signature added to a queued entity is
\* persisted under the key under which the entity is held in memory.
C36_RecordIsMemory ==
  \A k \in Keys :
    /\ localStorageTx[k] = StoredTxs(currentTxMap[k])
    /\ localStorageMsg[k] = StoredMsgs(currentMsgMap[k])

---------------------------------------------------------------------------
(* exportTx and importTx as a round trip *)

\* a store that holds nothing
EmptyTxStore == [mem |-> [k \in Keys |-> <<>>], ls |-> [k \in Keys |-> <<>>]]

\* the queue of a key after the export of that key is imported into an
\* empty store
Reimported(chainId) ==
  importTx(EmptyTxStore, SafeAddress, exportTx(currentTxMap, SafeAddress, chainId),
           chainId).mem[Key(SafeAddress, chainId)]

\* C37: importing the output of exportTx for a key into an empty store
\* reproduces the exported queue: the same transactions in the same order
\* with the same data and signatures; the export of an empty queue is the
\* empty string and importing it changes nothing.
C37_RoundTrip ==
  \A chainId \in StoreChainArgs :
    LET key == Key(SafeAddress, chainId)
        json == exportTx(currentTxMap, SafeAddress, chainId)
    IN /\ Reimported(chainId) = currentTxMap[key]
       /\ currentTxMap[key] = <<>> =>
            /\ json.kind = "empty"
            /\ importTx(TxStore, SafeAddress, json, chainId) = TxStore

---------------------------------------------------------------------------
(* useSafe: the effect that fetches the account state *)

MaxFetches == 3

\* the chains the wallet switches between; the account is in the address
\* book of both, the connected address is an owner on chain 1 only
FetchChains == {"1", "10"}
IsOwnerOn(chain) == chain = "1"

\* the awaits of fetchSafeInfo in the order it reaches them
FetchAwaits == <<"provider", "connectSafe", "reads", "isOwner">>

FetchRun(chain) == [chainId |-> chain, cancelled |-> FALSE, at |-> 1]

\* the effect has run and not returned at once
Fetching == fetchRuns # <<>>

\* the cleanup of the effect: cancelled = true in the run it belongs to
Cleanup(runs) ==
  [i \in 1..Len(runs) |-> IF i = Len(runs) THEN [runs[i] EXCEPT !.cancelled = TRUE] ELSE runs[i]]

\* the catch block of fetchSafeInfo
Caught(state) ==
  [state EXCEPT !.error = "Failed to fetch Safe data from chain", !.safeInfo = <<>>,
                !.kitRef = <<>>, !.isOwner = FALSE, !.unavailable = TRUE]

\* fetchSafeInfo goes on after the await it stands at: the account state
\* it leaves and whether it goes on to the next await
AfterAwait(run, ok, state) ==
  IF ~ok THEN [state |-> Caught(state), goesOn |-> FALSE]
  ELSE CASE FetchAwaits[run.at] = "provider" -> [state |-> state, goesOn |-> TRUE]
         [] FetchAwaits[run.at] = "connectSafe" ->
              [state |-> [state EXCEPT !.kitRef = <<run.chainId>>], goesOn |-> TRUE]
         [] FetchAwaits[run.at] = "reads" ->
              IF run.cancelled THEN [state |-> state, goesOn |-> FALSE]
              ELSE [state |-> [state EXCEPT !.safeInfo = <<[chainId |-> run.chainId]>>],
                    goesOn |-> TRUE]
         [] FetchAwaits[run.at] = "isOwner" ->
              [state |-> [state EXCEPT !.isOwner = IsOwnerOn(run.chainId),
                                       !.unavailable = FALSE],
               goesOn |-> FALSE]

NotFetchStep ==
  <<safeVars, txStoreVars, txPageVars, chainVars, msgStoreVars, wcVars, dashboardVars,
    requestVars, recordVars, hashVars, detailVars, buildVars, tabVars>>

\* a dependency of the effect changes (the wallet connects or switches the
\* chain): the cleanup of the last run, then fetchSafeInfo up to its first
\* await, which sets error to null
StartFetch ==
  /\ Len(fetchRuns) < MaxFetches
  /\ \E chain \in FetchChains :
       /\ IF fetchRuns = <<>> THEN TRUE
          ELSE LET last == fetchRuns[Len(fetchRuns)]
               IN last.cancelled \/ last.chainId # chain
       /\ fetchRuns' = Append(Cleanup(fetchRuns), FetchRun(chain))
  /\ accountState' = [accountState EXCEPT !.error = ""]
  /\ UNCHANGED NotFetchStep

\* an await of a run settles, resolved or rejected, and the run goes on to
\* its next await or to its end
FetchSettles ==
  /\ \E i \in 1..Len(fetchRuns), ok \in BOOLEAN :
       /\ fetchRuns[i].at <= Len(FetchAwaits)
       /\ LET next == AfterAwait(fetchRuns[i], ok, accountState)
          IN /\ accountState' = next.state
             /\ fetchRuns' = [fetchRuns EXCEPT ![i].at =
                                IF next.goesOn THEN @ + 1 ELSE Len(FetchAwaits) + 1]
  /\ UNCHANGED NotFetchStep

\* the wallet disconnects: the cleanup, then the effect resets the state
Disconnect ==
  /\ Fetching
  /\ ~fetchRuns[Len(fetchRuns)].cancelled
  /\ fetchRuns' = Cleanup(fetchRuns)
  /\ accountState' = [accountState EXCEPT !.safeInfo = <<>>, !.kitRef = <<>>,
                                          !.isOwner = FALSE, !.unavailable = FALSE]
  /\ UNCHANGED NotFetchStep

NextFetch ==
  \/ StartFetch
  \/ FetchSettles
  \/ Disconnect

SpecFetch == Init /\ [][NextFetch]_vars

\* run i has gone on after an await in this step
RunWentOn(i) ==
  /\ Len(fetchRuns') = Len(fetchRuns)
  /\ fetchRuns'[i].at # fetchRuns[i].at

\* C38: a run of the fetch that has been superseded (its cleanup has set
\* cancelled) changes none of safeInfo, isOwner, unavailable, error and the
\* cached kit instance, whether its await resolves or rejects.
C38_SupersededIsSilent ==
  [][\A i \in 1..Len(fetchRuns) :
       (RunWentOn(i) /\ fetchRuns[i].cancelled) => accountState' = accountState]_vars

---------------------------------------------------------------------------
(* The change set of the owner dialog *)

LowerSet(seq) == {toLowerCase(seq[i]) : i \in 1..Len(seq)}

\* the owners the account would have once the change set is applied
ProjectedOwners ==
  (LowerSet(safeInfo[1].owners) \ LowerSet(ownersToRemove)) \cup LowerSet(ownersToAdd)

\* C39: in the owner dialog the add queue holds no current owner and no
\* address twice (compared without case), the removal set holds only
\* current owners, the two are disjoint, the projected final owner count
\* is current - removals + additions, and a change set that leaves no
\* owner is not submitted.
C39_ChangeSetConsistent ==
  LET owners == safeInfo[1].owners
  IN /\ LowerSet(ownersToAdd) \cap LowerSet(owners) = {}
     /\ \A i, j \in 1..Len(ownersToAdd) :
          i # j => toLowerCase(ownersToAdd[i]) # toLowerCase(ownersToAdd[j])
     /\ LowerSet(ownersToRemove) \subseteq LowerSet(owners)
     /\ \A i, j \in 1..Len(ownersToRemove) : i # j => ownersToRemove[i] # ownersToRemove[j]
     /\ LowerSet(ownersToAdd) \cap LowerSet(ownersToRemove) = {}
     /\ finalOwnerCount(owners, Modal) = Cardinality(ProjectedOwners)
     /\ (ownerTxResult # <<>> /\ ProjectedOwners = {}) => ownerTxResult[1].status = "rejected"

\* a change set that removes one owner and queues two new addresses is on
\* screen
C39_Witness ==
  /\ manageOwnersModalOpen
  /\ Len(ownersToRemove) = 1
  /\ Len(ownersToAdd) = 2
  /\ ownerTxResult = <<>>

====
